---- MODULE Spec2Model ----
(***************************************************************************)
(* Size-aware bulk commit pipeline of github-mcp-mod: the push_files_chunked*)
(* handler (validation, chunk planning, chunk loop), pushChunk's five       *)
(* remote calls against a git object store, and the client-side rate       *)
(* limiter's statistics.                                                    *)
(*                                                                         *)
(* Sizes are counted in units of 5 MiB, so that the three byte ceilings    *)
(* keep their ratio 25 : 80 : 100.  A file's content is modelled by its    *)
(* byte length, the only property of it the handler reads; a path is a     *)
(* positive number, 0 is the empty string and -1 an absent or non-string   *)
(* value.  Commit identifiers are numbers, 0 being the empty string.       *)
(***************************************************************************)
EXTENDS Integers, Sequences, FiniteSets, TLC

VARIABLES
    pc,          \* position of the push_files_chunked handler
    args,        \* chunk_size and continue_on_error as received
    files,       \* []FileEntry returned by ValidateFiles
    chunkSize,   \* chunk_size after the clamp
    chunks,      \* [][]FileEntry planned
    chunkIdx,    \* index of the chunk in progress (1-based)
    result,      \* PushFilesChunkedResult under construction
    response,    \* what the handler returned
    local,       \* pushChunk's ref, baseCommit, newTree, newCommit
    branchTip,   \* remote: commit the branch reference points to
    commits,     \* remote: commit objects, sha -> [parent, tree]
    calls,       \* remote calls issued so far, in order
    stats,       \* ratelimit.Stats of the process-wide limiter
    cancelled,   \* ctx.Done() has fired
    failures,    \* remote failures injected so far
    externals,   \* pushes by other writers so far
    call,        \* a direct call of a validation function: name and arguments
    ret,         \* what that call returned
    retry,       \* an activation of ratelimit.RetryWithBackoff
    limiter      \* a ratelimit.RateLimiter in use: buckets, mutex, goroutines

vars == <<pc, args, files, chunkSize, chunks, chunkIdx, result, response,
          local, branchTip, commits, calls, stats, cancelled, failures,
          externals, call, ret, retry, limiter>>

----------------------------------------------------------------------------
\* Bounds of the model.
MaxFiles == 4
MaxFailures == 1
MaxExternal == 1
RetriesBound == 2

\* Program constants (unit: 5 MiB).
MaxFileSizeBytes == 5
MaxTotalPushSizeBytes == 20
ChunkSafetyMarginPercent == 80
MaxChunkSize == 4

NoString == -1
EmptyString == 0
NoSHA == 0
InitialTip == 1

\* File sizes a batch may hold: empty, one unit (three files at the per-file
\* ceiling and one of a unit fill a chunk to GetMaxChunkSize exactly), at
\* the per-file ceiling, one above it, and one above what a push may hold.
FileSizes ==
    {0, 1, MaxFileSizeBytes, MaxFileSizeBytes + 1, MaxTotalPushSizeBytes + 1}
ChunkSizeArgs == 0 .. (MaxChunkSize + 1)

----------------------------------------------------------------------------
\* Sequence helpers.
RECURSIVE SumSizes(_)
SumSizes(fs) ==
    IF fs = <<>> THEN 0 ELSE fs[1].Content + SumSizes(Tail(fs))

RECURSIVE Flatten(_)
Flatten(cs) ==
    IF cs = <<>> THEN <<>> ELSE cs[1] \o Flatten(Tail(cs))

PathsOf(fs) == [i \in 1 .. Len(fs) |-> fs[i].Path]

Max(a, b) == IF a > b THEN a ELSE b

----------------------------------------------------------------------------
\* validation.go: ValidateFiles.

\* A raw element of the files array: obj is FALSE for a value that is not a
\* JSON object; path and content are NoString when absent or not a string.
RawEntry(o, p, c) == [obj |-> o, path |-> p, content |-> c]

EmptyValidationResult ==
    [TotalSize |-> 0, FileCount |-> 0, LargestFile |-> EmptyString,
     LargestFileSize |-> 0, Duplicates |-> <<>>, OversizedFiles |-> <<>>]

\* Mutant: an empty content is taken for a missing one.
ShapeError_EmptyContent(e) ==
    IF ~e.obj THEN "INVALID_FILE_FORMAT"
    ELSE IF e.path = NoString \/ e.path = EmptyString THEN "MISSING_FILE_PATH"
    ELSE IF e.content = NoString \/ e.content = 0 THEN "MISSING_FILE_CONTENT"
    ELSE ""

\* The shape error of one raw entry, "" when it is well formed.
ShapeError(e) ==
    IF ~e.obj THEN "INVALID_FILE_FORMAT"
    ELSE IF e.path = NoString \/ e.path = EmptyString THEN "MISSING_FILE_PATH"
    ELSE IF e.content = NoString THEN "MISSING_FILE_CONTENT"
    ELSE ""

\* Mutant: a repeated path is not recorded.
TrackDuplicate_Never(dups, seen, path, i) == dups

\* Mutant: the index list is started afresh at every repeat of the path.
TrackDuplicate_Restart(dups, seen, path, i) ==
    IF path \in DOMAIN seen
    THEN [q \in DOMAIN dups \cup {path} |->
             IF q = path THEN <<seen[path], i>> ELSE dups[q]]
    ELSE dups

\* result.Duplicates after the entry at Go index i with this path; seen is
\* seenPaths before the entry.
TrackDuplicate(dups, seen, path, i) ==
    IF path \in DOMAIN seen
    THEN LET base == IF path \in DOMAIN dups THEN dups[path] ELSE <<seen[path]>>
         IN  [q \in DOMAIN dups \cup {path} |->
                 IF q = path THEN Append(base, i) ELSE dups[q]]
    ELSE dups

\* The strict comparison that keeps the first of several largest files.
IsNewLargest(fileSize, largestSoFar) == fileSize > largestSoFar

\* Mutant: a file at the per-file ceiling counts as oversized.
IsOversized_AtCeiling(fileSize) == fileSize >= MaxFileSizeBytes

IsOversized(fileSize) == fileSize > MaxFileSizeBytes

\* One iteration of the loop body for a well-formed entry at Go index i.
ScanEntry(st, e, i) ==
    LET r == st.result
        fileSize == e.content
        newLargest == IsNewLargest(fileSize, r.LargestFileSize)
    IN  [result |->
            [TotalSize |-> r.TotalSize + fileSize,
             FileCount |-> r.FileCount + 1,
             LargestFile |-> IF newLargest THEN e.path ELSE r.LargestFile,
             LargestFileSize |-> IF newLargest THEN fileSize ELSE r.LargestFileSize,
             Duplicates |-> TrackDuplicate(r.Duplicates, st.seenPaths, e.path, i),
             OversizedFiles |-> IF IsOversized(fileSize)
                                THEN Append(r.OversizedFiles, e.path)
                                ELSE r.OversizedFiles],
         seenPaths |-> [q \in DOMAIN st.seenPaths \cup {e.path} |->
                           IF q = e.path THEN i ELSE st.seenPaths[q]],
         entries |-> Append(st.entries, [Path |-> e.path, Content |-> e.content])]

RECURSIVE ScanFrom(_, _, _)
ScanFrom(raw, k, st) ==
    IF k > Len(raw) THEN [code |-> "", index |-> -1, st |-> st]
    ELSE IF ShapeError(raw[k]) # ""
         THEN [code |-> ShapeError(raw[k]), index |-> k - 1, st |-> st]
         ELSE ScanFrom(raw, k + 1, ScanEntry(st, raw[k], k - 1))

\* Mutant: the duplicates found before a malformed entry are reported
\* in place of the shape error.
ValidateFiles_DuplicatesFirst(raw) ==
    LET scan == ScanFrom(raw, 1,
                    [result |-> EmptyValidationResult, seenPaths |-> <<>>,
                     entries |-> <<>>])
    IN  IF DOMAIN scan.st.result.Duplicates # {}
        THEN [code |-> "DUPLICATE_FILE_PATHS", index |-> -1,
              hasResult |-> TRUE, result |-> scan.st.result, entries |-> <<>>]
        ELSE IF scan.code # ""
        THEN [code |-> scan.code, index |-> scan.index,
              hasResult |-> FALSE, result |-> EmptyValidationResult,
              entries |-> <<>>]
        ELSE [code |-> "", index |-> -1,
              hasResult |-> TRUE, result |-> scan.st.result,
              entries |-> scan.st.entries]

\* ValidateFiles without the choice of the duplicate the error names:
\* [code, index, result, entries]; result and entries are meaningful as
\* the code returns them (nil, nil on a shape error; result, nil on
\* duplicates).
ValidateFiles(raw) ==
    LET scan == ScanFrom(raw, 1,
                    [result |-> EmptyValidationResult, seenPaths |-> <<>>,
                     entries |-> <<>>])
    IN  IF scan.code # ""
        THEN [code |-> scan.code, index |-> scan.index,
              hasResult |-> FALSE, result |-> EmptyValidationResult,
              entries |-> <<>>]
        ELSE IF DOMAIN scan.st.result.Duplicates # {}
        THEN [code |-> "DUPLICATE_FILE_PATHS", index |-> -1,
              hasResult |-> TRUE, result |-> scan.st.result, entries |-> <<>>]
        ELSE [code |-> "", index |-> -1,
              hasResult |-> TRUE, result |-> scan.st.result,
              entries |-> scan.st.entries]

\* The paths the duplicate error may name: Go iterates the map in an
\* unspecified order and takes the first key.
DuplicateRepresentatives(res) == DOMAIN res.Duplicates

\* What a failed or successful ValidateFiles hands back, with the path and
\* the index list the duplicate error names.
ValidateFilesReturns(raw) ==
    LET v == ValidateFiles(raw)
    IN  IF v.code = "DUPLICATE_FILE_PATHS"
        THEN {[code |-> v.code, index |-> v.index, hasResult |-> v.hasResult,
               result |-> v.result, entries |-> v.entries,
               errPath |-> p, errIndices |-> v.result.Duplicates[p]] :
                 p \in DuplicateRepresentatives(v.result)}
        ELSE {[code |-> v.code, index |-> v.index, hasResult |-> v.hasResult,
               result |-> v.result, entries |-> v.entries,
               errPath |-> EmptyString, errIndices |-> <<>>]}

\* validation.go: ValidateFileCount, ValidateTotalSize.
ValidateFileCount(count, maxFiles) ==
    IF count > maxFiles
    THEN [code |-> "TOO_MANY_FILES", count |-> count, max |-> maxFiles]
    ELSE [code |-> "", count |-> count, max |-> maxFiles]

\* Mutant: a total at the limit is refused.
ValidateTotalSize_AtLimit(totalSize) ==
    IF totalSize >= MaxTotalPushSizeBytes
    THEN [code |-> "TOTAL_SIZE_TOO_LARGE", size |-> totalSize]
    ELSE [code |-> "", size |-> totalSize]

ValidateTotalSize(totalSize) ==
    IF totalSize > MaxTotalPushSizeBytes
    THEN [code |-> "TOTAL_SIZE_TOO_LARGE", size |-> totalSize]
    ELSE [code |-> "", size |-> totalSize]

\* validation.go: ValidateFileSize, ValidateChunkSize, GetMaxChunkSize.
ValidateFileSize(path, size) ==
    IF size > MaxFileSizeBytes
    THEN [code |-> "FILE_TOO_LARGE", path |-> path, size |-> size]
    ELSE [code |-> "", path |-> path, size |-> size]

\* Mutant: the size of the chunk is not checked.
ValidateChunkSize_NoCheck(fs) ==
    [code |-> "", bytes |-> SumSizes(fs), count |-> Len(fs)]

ValidateChunkSize(fs) ==
    IF SumSizes(fs) > MaxTotalPushSizeBytes
    THEN [code |-> "CHUNK_TOO_LARGE", bytes |-> SumSizes(fs), count |-> Len(fs)]
    ELSE [code |-> "", bytes |-> SumSizes(fs), count |-> Len(fs)]

GetMaxChunkSize == (MaxTotalPushSizeBytes * ChunkSafetyMarginPercent) \div 100

----------------------------------------------------------------------------
\* push_files_chunked: the chunk_size clamp and the chunk planner.

ClampChunkSize(c) ==
    IF c > MaxChunkSize THEN MaxChunkSize
    ELSE IF c < 1 THEN 1
    ELSE c

WouldExceedSize(currentChunkSize, fileSize, maxChunkBytes) ==
    currentChunkSize + fileSize > maxChunkBytes

\* Mutant: the count limit is compared with > instead of >=.
WouldExceedCount_Strict(currentChunkFileCount, size) ==
    currentChunkFileCount > size

WouldExceedCount(currentChunkFileCount, size) ==
    currentChunkFileCount >= size

EmptyPlan ==
    [chunks |-> <<>>, currentChunk |-> <<>>, currentChunkSize |-> 0,
     currentChunkFileCount |-> 0]

\* One iteration of the planning loop.
PlanFile(st, file, size, maxChunkBytes) ==
    LET fileSize == file.Content
        split == /\ Len(st.currentChunk) > 0
                 /\ \/ WouldExceedSize(st.currentChunkSize, fileSize, maxChunkBytes)
                    \/ WouldExceedCount(st.currentChunkFileCount, size)
        open == IF split
                THEN [chunks |-> Append(st.chunks, st.currentChunk),
                      currentChunk |-> <<>>, currentChunkSize |-> 0,
                      currentChunkFileCount |-> 0]
                ELSE st
    IN  [chunks |-> open.chunks,
         currentChunk |-> Append(open.currentChunk, file),
         currentChunkSize |-> open.currentChunkSize + fileSize,
         currentChunkFileCount |-> open.currentChunkFileCount + 1]

RECURSIVE PlanFrom(_, _, _, _, _)
PlanFrom(fs, k, st, size, maxChunkBytes) ==
    IF k > Len(fs) THEN st
    ELSE PlanFrom(fs, k + 1, PlanFile(st, fs[k], size, maxChunkBytes),
                  size, maxChunkBytes)

\* Mutant: the chunk still open after the loop is not closed.
PlanChunks_DropLast(fs, size, maxChunkBytes) ==
    PlanFrom(fs, 1, EmptyPlan, size, maxChunkBytes).chunks

\* The planning loop and the closing of the last open chunk.
PlanChunks(fs, size, maxChunkBytes) ==
    LET st == PlanFrom(fs, 1, EmptyPlan, size, maxChunkBytes)
    IN  IF Len(st.currentChunk) > 0
        THEN Append(st.chunks, st.currentChunk)
        ELSE st.chunks

----------------------------------------------------------------------------
\* The inputs of a call.  Paths are names without meaning, so a batch is
\* taken up to renaming: the first path that occurs is 1, the next new one
\* is 2, and so on.

UsedPaths(raw) ==
    {raw[i].path : i \in 1 .. Len(raw)} \ {NoString, EmptyString}

WellFormed(e) == ShapeError(e) = ""

\* Every raw entry of the model: the well-formed ones and the four
\* malformed shapes.
AllEntries ==
    {RawEntry(TRUE, p, c) : p \in 1 .. MaxFiles, c \in FileSizes}
    \cup {RawEntry(FALSE, NoString, NoString),
          RawEntry(TRUE, NoString, 0),
          RawEntry(TRUE, EmptyString, 0)}
    \cup {RawEntry(TRUE, p, NoString) : p \in 1 .. MaxFiles}

\* Entry e brings a defect to batch b: it is malformed, above the per-file
\* ceiling, or repeats a path of b.
BringsDefect(b, e) ==
    \/ ~WellFormed(e)
    \/ e.content > MaxFileSizeBytes
    \/ e.path \in UsedPaths(b)

Defective(b) ==
    \E i \in 1 .. Len(b) : BringsDefect(SubSeq(b, 1, i - 1), b[i])

\* The entries batch b can go on with: the path of a well-formed entry is
\* one already used or the next new one, and a batch holds at most one
\* entry that brings a defect (the entries around it vary freely).
Follows(b, e) ==
    LET fresh == Cardinality(UsedPaths(b)) + 1
    IN  /\ e.path \in {NoString, EmptyString} \cup (1 .. fresh)
        /\ ~WellFormed(e) => e.path \in {NoString, EmptyString, fresh}
        /\ Defective(b) => ~BringsDefect(b, e)

RECURSIVE BatchesOfLen(_)
BatchesOfLen(n) ==
    IF n = 0 THEN {<<>>}
    ELSE {Append(q[1], q[2]) :
            q \in {r \in BatchesOfLen(n - 1) \X AllEntries : Follows(r[1], r[2])}}

RECURSIVE BatchesUpTo(_)
BatchesUpTo(n) ==
    IF n = 0 THEN BatchesOfLen(0)
    ELSE BatchesUpTo(n - 1) \cup BatchesOfLen(n)

Batches == BatchesUpTo(MaxFiles)

\* Mutant: the handler does not look at OversizedFiles.
OversizedCheck_Skipped(res) ==
    [code |-> "", path |-> EmptyString, size |-> 0]

\* The first oversized path checked against the largest file's size, as the
\* handler's loop over OversizedFiles does.
OversizedCheck(res) ==
    IF res.OversizedFiles = <<>>
    THEN [code |-> "", path |-> EmptyString, size |-> 0]
    ELSE ValidateFileSize(res.OversizedFiles[1], res.LargestFileSize)

\* The batches that pass the handler's checks, and those that do not.
IsAccepted(b) ==
    LET v == ValidateFiles(b)
    IN  /\ Len(b) > 0
        /\ v.code = ""
        /\ OversizedCheck(v.result).code = ""

AcceptedBatches == {b \in Batches : IsAccepted(b)}

RejectedBatches == {b \in Batches : ~IsAccepted(b)}

\* The accepted batches whose files all have the size of the per-file
\* ceiling: the batches of the runs with a faulty environment.
FullSizeBatches ==
    {b \in AcceptedBatches :
        \A i \in 1 .. Len(b) : b[i].content = MaxFileSizeBytes}

----------------------------------------------------------------------------
\* The remote object store.

ChunkSha(k) == InitialTip + k
ExternalSha(j) == InitialTip + MaxFiles + j

RECURSIVE IsAncestorOrSelf(_, _, _)
IsAncestorOrSelf(cs, a, c) ==
    IF c = NoSHA \/ c \notin DOMAIN cs THEN FALSE
    ELSE IF a = c THEN TRUE
    ELSE IsAncestorOrSelf(cs, a, cs[c].parent)

\* update-ref as the server decides it: a forced update always moves the
\* reference, a non-forced one only when it is a fast-forward.
UpdateRefAccepted(cs, tip, sha, force) ==
    force \/ IsAncestorOrSelf(cs, tip, sha)

\* Mutant: the reference is updated with force.
UpdateRefForce_True == TRUE

\* The Force field pushChunk sends with update-ref.
UpdateRefForce == FALSE

----------------------------------------------------------------------------
\* State of the handler.

NoResponse ==
    [kind |-> "none", code |-> "", index |-> -1, path |-> EmptyString,
     size |-> 0, indices |-> <<>>]

ToolError(code, index, path, size, indices) ==
    [kind |-> "toolError", code |-> code, index |-> index, path |-> path,
     size |-> size, indices |-> indices]

EmptyResult ==
    [TotalFiles |-> 0, TotalChunks |-> 0, SuccessfulChunks |-> 0,
     FailedChunks |-> 0, FinalCommitSHA |-> NoSHA, Chunks |-> <<>>,
     FullySuccessful |-> FALSE]

NoLocal == [ref |-> NoSHA, baseCommit |-> NoSHA, baseTree |-> {},
            newTree |-> {}, newCommit |-> NoSHA]

EmptyStats == [CoreWaits |-> 0, SearchWaits |-> 0, GraphQLWaits |-> 0,
               TotalWaitMs |-> 0]

\* No direct call is under way, and no activation of RetryWithBackoff.
NoCall == [fn |-> "none"]
NoReturn == [done |-> FALSE]
NoRetry == [pc |-> "none"]
NoLimiter == [on |-> FALSE]

Init ==
    /\ pc = "idle"
    /\ args = [chunkSize |-> 0, continueOnError |-> FALSE]
    /\ files = <<>>
    /\ chunkSize = 0
    /\ chunks = <<>>
    /\ chunkIdx = 0
    /\ result = EmptyResult
    /\ response = NoResponse
    /\ local = NoLocal
    /\ branchTip = InitialTip
    /\ commits = [s \in {InitialTip} |-> [parent |-> NoSHA, tree |-> {}]]
    /\ calls = <<>>
    /\ stats = EmptyStats
    /\ cancelled = FALSE
    /\ failures = 0
    /\ externals = 0
    /\ call = NoCall
    /\ ret = NoReturn
    /\ retry = NoRetry
    /\ limiter = NoLimiter

remoteVars == <<branchTip, commits, calls>>
libVars == <<call, ret, retry, limiter>>
envVars == <<stats, cancelled, failures, externals>>
planVars == <<args, files, chunkSize, chunks>>

----------------------------------------------------------------------------
\* push_files_chunked, up to the first remote call.

\* files is not an array.
RejectNotArray ==
    /\ pc = "idle"
    /\ pc' = "done"
    /\ response' = ToolError("FILES_NOT_ARRAY", -1, EmptyString, 0, <<>>)
    /\ UNCHANGED <<planVars, chunkIdx, result, local, remoteVars, envVars, libVars>>

\* The response to a batch the handler rejects: empty, malformed, with a
\* duplicate path, or with an oversized file.
Rejections(raw) ==
    LET v == ValidateFiles(raw)
        o == OversizedCheck(v.result)
    IN  IF Len(raw) = 0
        THEN {ToolError("FILES_EMPTY", -1, EmptyString, 0, <<>>)}
        ELSE IF v.code = "DUPLICATE_FILE_PATHS"
        THEN {ToolError(v.code, -1, p, 0, v.result.Duplicates[p]) :
                 p \in DuplicateRepresentatives(v.result)}
        ELSE IF v.code # ""
        THEN {ToolError(v.code, v.index, EmptyString, 0, <<>>)}
        ELSE IF o.code # ""
        THEN {ToolError(o.code, -1, o.path, o.size, <<>>)}
        ELSE {}

RejectFrom(batches) ==
    /\ pc = "idle"
    /\ \E raw \in batches :
          \E r \in Rejections(raw) :
             response' = r
    /\ pc' = "done"
    /\ UNCHANGED <<planVars, chunkIdx, result, local, remoteVars, envVars, libVars>>

Reject == RejectFrom(RejectedBatches)

\* The batch passed validation and the oversized check.
AcceptFrom(batches) ==
    /\ pc = "idle"
    /\ \E raw \in batches, c \in ChunkSizeArgs, coe \in BOOLEAN :
          /\ args' = [chunkSize |-> c, continueOnError |-> coe]
          /\ files' = ValidateFiles(raw).entries
          /\ chunkSize' = ClampChunkSize(c)
    /\ pc' = "client"
    /\ UNCHANGED <<chunks, chunkIdx, result, response, local, remoteVars, envVars,
                   libVars>>

Accept == AcceptFrom(FullSizeBatches)

AcceptAny == AcceptFrom(AcceptedBatches)

GetClientFails ==
    /\ pc = "client"
    /\ pc' = "done"
    /\ response' = [NoResponse EXCEPT !.kind = "goError", !.code = "GET_CLIENT"]
    /\ UNCHANGED <<planVars, chunkIdx, result, local, remoteVars, envVars, libVars>>

\* getClient succeeded: plan the chunks and set up the result.
Plan ==
    /\ pc = "client"
    /\ chunks' = PlanChunks(files, chunkSize, GetMaxChunkSize)
    /\ result' = [EmptyResult EXCEPT !.TotalFiles = Len(files),
                                     !.TotalChunks = Len(chunks')]
    /\ chunkIdx' = 1
    /\ pc' = "loop"
    /\ UNCHANGED <<args, files, chunkSize, response, local, remoteVars, envVars,
                   libVars>>

----------------------------------------------------------------------------
\* push_files_chunked: the chunk loop.

CurrentChunk == chunks[chunkIdx]

\* Mutant: the outcome carries the sha of the chunk's commit whether or not
\* the chunk succeeded.
NewChunkResult_ShaKept(success, sha, err) ==
    [ChunkIndex |-> chunkIdx, FilesInChunk |-> Len(CurrentChunk),
     CommitSHA |-> ChunkSha(chunkIdx), Success |-> success, Error |-> err,
     Files |-> PathsOf(CurrentChunk)]

\* The ChunkResult of the chunk in progress.
NewChunkResult(success, sha, err) ==
    [ChunkIndex |-> chunkIdx, FilesInChunk |-> Len(CurrentChunk),
     CommitSHA |-> sha, Success |-> success, Error |-> err,
     Files |-> PathsOf(CurrentChunk)]

\* Mutant: a failed chunk never ends the run.
StopsOnFailure_Never(continueOnError) == FALSE

\* Mutant: a failed chunk always ends the run.
StopsOnFailure_Always(continueOnError) == TRUE

\* The handler returns at the first failed chunk unless continue_on_error.
StopsOnFailure(continueOnError) == ~continueOnError

\* Mutant: the failed outcome is counted but not appended.
FailureRecorded_NoAppend(res, cr) ==
    [res EXCEPT !.FailedChunks = @ + 1]

\* Mutant: a failed chunk clears final_commit_sha.
FailureRecorded_ClearsFinal(res, cr) ==
    [res EXCEPT !.FailedChunks = @ + 1, !.Chunks = Append(@, cr),
                !.FinalCommitSHA = NoSHA]

FailureRecorded(res, cr) ==
    [res EXCEPT !.FailedChunks = @ + 1, !.Chunks = Append(@, cr)]

SuccessRecorded(res, cr) ==
    [res EXCEPT !.SuccessfulChunks = @ + 1,
                !.FinalCommitSHA = cr.CommitSHA,
                !.Chunks = Append(@, cr)]

TextResponse == [NoResponse EXCEPT !.kind = "text"]

\* Mutant: the loop skips a chunk.
ChunkAfter_Skip(i) == i + 2

\* Mutant: the loop takes the same chunk again.
ChunkAfter_Again(i) == i

\* The range loop's step to the next chunk.
ChunkAfter(i) == i + 1

\* Mutant: a failed step puts the reference back to the tip read in step 1.
BranchAfterFailedStep_Rollback(tip, refRead) ==
    IF refRead # NoSHA THEN refRead ELSE tip

\* Mutant: a failed step puts the reference back to the tip before the run.
BranchAfterFailedStep_Reset(tip, refRead) == InitialTip

\* The branch after a step of pushChunk has failed: pushChunk returns the
\* error and issues no call that would restore the reference it read.
BranchAfterFailedStep(tip, refRead) == tip

\* pushChunk returned an error.
FailChunk(err) ==
    LET res == FailureRecorded(result, NewChunkResult(FALSE, NoSHA, err))
    IN  /\ local' = NoLocal
        /\ branchTip' = BranchAfterFailedStep(branchTip, local.ref)
        /\ IF StopsOnFailure(args.continueOnError)
           THEN /\ result' = [res EXCEPT !.FullySuccessful = FALSE]
                /\ response' = TextResponse
                /\ pc' = "done"
                /\ UNCHANGED chunkIdx
           ELSE /\ result' = res
                /\ chunkIdx' = ChunkAfter(chunkIdx)
                /\ pc' = "loop"
                /\ UNCHANGED response

\* pushChunk returned the new commit's sha.
SucceedChunk(sha) ==
    /\ local' = NoLocal
    /\ result' = SuccessRecorded(result, NewChunkResult(TRUE, sha, ""))
    /\ chunkIdx' = ChunkAfter(chunkIdx)
    /\ pc' = "loop"
    /\ UNCHANGED response

\* Top of the loop and pushChunk's size check.
BeginChunk ==
    /\ pc = "loop"
    /\ chunkIdx <= Len(chunks)
    /\ IF ValidateChunkSize(CurrentChunk).code # ""
       THEN FailChunk(ValidateChunkSize(CurrentChunk).code)
       ELSE /\ pc' = "getref"
            /\ UNCHANGED <<chunkIdx, result, response, local, branchTip>>
    /\ UNCHANGED <<planVars, commits, calls, envVars, libVars>>

\* The loop is over: set fully_successful and return the result.
Finish ==
    /\ pc = "loop"
    /\ chunkIdx > Len(chunks)
    /\ result' = [result EXCEPT !.FullySuccessful = (result.FailedChunks = 0)]
    /\ response' = TextResponse
    /\ pc' = "done"
    /\ UNCHANGED <<planVars, chunkIdx, local, remoteVars, envVars, libVars>>

----------------------------------------------------------------------------
\* pushChunk: the five remote calls.  A call on a cancelled context fails;
\* otherwise it fails only by a fault of the network or the server, of
\* which a run holds at most MaxFailures.

CallOutcomes ==
    {ok \in BOOLEAN : /\ ok => ~cancelled
                      /\ ~ok => (cancelled \/ failures < MaxFailures)}

\* The call op is issued; sent tells whether it reached the server and the
\* answer came back, ok whether it returned without an error.
Issue(op, sent, ok) ==
    /\ calls' = Append(calls, [chunk |-> chunkIdx, op |-> op, ok |-> ok,
                               recorded |-> Len(result.Chunks)])
    /\ failures' = IF ~sent /\ ~cancelled THEN failures + 1 ELSE failures
    /\ UNCHANGED <<stats, cancelled, externals, libVars>>

\* Mutant: the new commit is given the tip before the run as its parent.
NewCommitObject_OnInitialTip(l) == [parent |-> InitialTip, tree |-> l.newTree]

\* The commit sent to create-commit: the new tree and, as its only parent,
\* the base commit read in step 2.
NewCommitObject(l) == [parent |-> l.baseCommit, tree |-> l.newTree]

GetRef ==
    /\ pc = "getref"
    /\ \E ok \in CallOutcomes :
          /\ Issue("GetRef", ok, ok)
          /\ IF ok
             THEN /\ local' = [local EXCEPT !.ref = branchTip]
                  /\ pc' = "getcommit"
                  /\ UNCHANGED <<chunkIdx, result, response, branchTip>>
             ELSE FailChunk("failed to get branch reference")
    /\ UNCHANGED <<planVars, commits>>

GetCommit ==
    /\ pc = "getcommit"
    /\ \E ok \in CallOutcomes :
          /\ Issue("GetCommit", ok, ok)
          /\ IF ok
             THEN /\ local' = [local EXCEPT !.baseCommit = local.ref,
                                            !.baseTree = commits[local.ref].tree]
                  /\ pc' = "createtree"
                  /\ UNCHANGED <<chunkIdx, result, response, branchTip>>
             ELSE FailChunk("failed to get base commit")
    /\ UNCHANGED <<planVars, commits>>

CreateTree ==
    /\ pc = "createtree"
    /\ \E ok \in CallOutcomes :
          /\ Issue("CreateTree", ok, ok)
          /\ IF ok
             THEN /\ local' = [local EXCEPT !.newTree =
                        local.baseTree \cup
                        {CurrentChunk[i].Path : i \in 1 .. Len(CurrentChunk)}]
                  /\ pc' = "createcommit"
                  /\ UNCHANGED <<chunkIdx, result, response, branchTip>>
             ELSE FailChunk("failed to create tree")
    /\ UNCHANGED <<planVars, commits>>

CreateCommit ==
    /\ pc = "createcommit"
    /\ \E ok \in CallOutcomes :
          /\ Issue("CreateCommit", ok, ok)
          /\ IF ok
             THEN /\ local' = [local EXCEPT !.newCommit = ChunkSha(chunkIdx)]
                  /\ commits' = [s \in DOMAIN commits \cup {ChunkSha(chunkIdx)} |->
                        IF s = ChunkSha(chunkIdx)
                        THEN NewCommitObject(local)
                        ELSE commits[s]]
                  /\ pc' = "updateref"
                  /\ UNCHANGED <<chunkIdx, result, response, branchTip>>
             ELSE /\ FailChunk("failed to create commit")
                  /\ UNCHANGED commits
    /\ UNCHANGED planVars

UpdateRef ==
    /\ pc = "updateref"
    /\ \E sent \in CallOutcomes :
          LET ok == sent /\ UpdateRefAccepted(commits, branchTip,
                                               local.newCommit, UpdateRefForce)
          IN  /\ Issue("UpdateRef", sent, ok)
              /\ IF ok
                 THEN /\ branchTip' = local.newCommit
                      /\ SucceedChunk(local.newCommit)
                 ELSE FailChunk("failed to update reference")
    /\ UNCHANGED <<planVars, commits>>

----------------------------------------------------------------------------
\* The environment of a run.

Running == pc \notin {"idle", "done"}

\* Another writer pushes a commit onto the branch.
ExternalPush ==
    /\ Running
    /\ externals < MaxExternal
    /\ externals' = externals + 1
    /\ commits' = [s \in DOMAIN commits \cup {ExternalSha(externals + 1)} |->
          IF s = ExternalSha(externals + 1)
          THEN [parent |-> branchTip, tree |-> commits[branchTip].tree]
          ELSE commits[s]]
    /\ branchTip' = ExternalSha(externals + 1)
    /\ UNCHANGED <<pc, planVars, chunkIdx, result, response, local, calls,
                   stats, cancelled, failures, libVars>>

\* The request's context is cancelled.
Cancel ==
    /\ Running
    /\ ~cancelled
    /\ cancelled' = TRUE
    /\ UNCHANGED <<pc, planVars, chunkIdx, result, response, local,
                   remoteVars, stats, failures, externals, libVars>>

Next ==
    \/ RejectNotArray
    \/ Reject
    \/ Accept
    \/ GetClientFails
    \/ Plan
    \/ BeginChunk
    \/ GetRef
    \/ GetCommit
    \/ CreateTree
    \/ CreateCommit
    \/ UpdateRef
    \/ Finish
    \/ ExternalPush
    \/ Cancel

Spec == Init /\ [][Next]_vars

----------------------------------------------------------------------------
\* The handler on every batch, in an environment without faults, other
\* writers or cancellation.

InitQuiet ==
    /\ pc = "idle"
    /\ args = [chunkSize |-> 0, continueOnError |-> FALSE]
    /\ files = <<>>
    /\ chunkSize = 0
    /\ chunks = <<>>
    /\ chunkIdx = 0
    /\ result = EmptyResult
    /\ response = NoResponse
    /\ local = NoLocal
    /\ branchTip = InitialTip
    /\ commits = [s \in {InitialTip} |-> [parent |-> NoSHA, tree |-> {}]]
    /\ calls = <<>>
    /\ stats = EmptyStats
    /\ cancelled = FALSE
    /\ failures = MaxFailures
    /\ externals = MaxExternal
    /\ call = NoCall
    /\ ret = NoReturn
    /\ retry = NoRetry
    /\ limiter = NoLimiter

NextQuiet ==
    \/ RejectNotArray
    \/ Reject
    \/ AcceptAny
    \/ GetClientFails
    \/ Plan
    \/ BeginChunk
    \/ GetRef
    \/ GetCommit
    \/ CreateTree
    \/ CreateCommit
    \/ UpdateRef
    \/ Finish

SpecQuiet == InitQuiet /\ [][NextQuiet]_vars

----------------------------------------------------------------------------
\* The validation functions and pushChunk called directly, and the handler
\* on a request given in advance.

handlerVars == <<pc, planVars, chunkIdx, result, response, local, remoteVars,
                 envVars>>

\* The handler before a request, in an environment without faults.
HandlerAtRest ==
    /\ pc = "idle"
    /\ args = [chunkSize |-> 0, continueOnError |-> FALSE]
    /\ files = <<>>
    /\ chunkSize = 0
    /\ chunks = <<>>
    /\ chunkIdx = 0
    /\ result = EmptyResult
    /\ response = NoResponse
    /\ local = NoLocal
    /\ branchTip = InitialTip
    /\ commits = [s \in {InitialTip} |-> [parent |-> NoSHA, tree |-> {}]]
    /\ calls = <<>>
    /\ stats = EmptyStats
    /\ cancelled = FALSE
    /\ failures = MaxFailures
    /\ externals = MaxExternal

\* Sizes of the files of a direct call: empty, at the per-file ceiling, one
\* and two above it.
ScanSizes == {0, MaxFileSizeBytes, MaxFileSizeBytes + 1, MaxFileSizeBytes + 2}

\* Raw entries of a direct call of ValidateFiles: two paths, so that a path
\* can repeat next to one that does not, and every malformed shape (not an
\* object, neither path nor content, an empty path, no content).
ScanEntries ==
    {RawEntry(TRUE, p, c) : p \in 1 .. 2, c \in ScanSizes}
    \cup {RawEntry(FALSE, NoString, NoString),
          RawEntry(TRUE, NoString, NoString),
          RawEntry(TRUE, EmptyString, 0),
          RawEntry(TRUE, 1, NoString)}

\* Well-formed batches with pairwise distinct paths: entry i has path i.
DistinctBatches(n) ==
    {[i \in 1 .. n |-> RawEntry(TRUE, i, sz[i])] : sz \in [1 .. n -> ScanSizes]}

FileEntriesOf(raw) ==
    [i \in 1 .. Len(raw) |-> [Path |-> raw[i].path, Content |-> raw[i].content]]

\* The chunk loop about to hand the files fs to pushChunk as the only
\* chunk, whatever their sizes, in an environment without faults.
HandlerAtPushChunk(fs) ==
    /\ pc = "loop"
    /\ args = [chunkSize |-> Len(fs), continueOnError |-> FALSE]
    /\ files = fs
    /\ chunkSize = ClampChunkSize(Len(fs))
    /\ chunks = <<fs>>
    /\ chunkIdx = 1
    /\ result = [EmptyResult EXCEPT !.TotalFiles = Len(fs), !.TotalChunks = 1]
    /\ response = NoResponse
    /\ local = NoLocal
    /\ branchTip = InitialTip
    /\ commits = [s \in {InitialTip} |-> [parent |-> NoSHA, tree |-> {}]]
    /\ calls = <<>>
    /\ stats = EmptyStats
    /\ cancelled = FALSE
    /\ failures = MaxFailures
    /\ externals = MaxExternal

InitValidate ==
    /\ ret = NoReturn
    /\ retry = NoRetry
    /\ limiter = NoLimiter
    /\ \/ /\ HandlerAtRest
          /\ \/ \E n \in 0 .. MaxFiles :
                   \E raw \in [1 .. n -> ScanEntries] \cup DistinctBatches(n) :
                      call = [fn |-> "ValidateFiles", raw |-> raw]
             \/ \E n \in 1 .. MaxFiles : \E raw \in DistinctBatches(n) :
                   call = [fn |-> "push_files_chunked", raw |-> raw]
             \/ \E n \in 0 .. MaxFiles : \E raw \in DistinctBatches(n) :
                   call = [fn |-> "ValidateChunkSize",
                           files |-> FileEntriesOf(raw)]
             \/ \E c \in 0 .. MaxFiles + 1, m \in 0 .. MaxFiles :
                   call = [fn |-> "ValidateFileCount", count |-> c,
                           maxFiles |-> m]
             \/ \E sz \in 0 .. MaxFileSizeBytes + 2 :
                   call = [fn |-> "ValidateFileSize", path |-> 1, size |-> sz]
             \/ \E sz \in 0 .. MaxTotalPushSizeBytes + 2 :
                   call = [fn |-> "ValidateTotalSize", totalSize |-> sz]
       \/ \E n \in 1 .. MaxFiles : \E raw \in DistinctBatches(n) :
             /\ call = [fn |-> "pushChunk", files |-> FileEntriesOf(raw)]
             /\ HandlerAtPushChunk(FileEntriesOf(raw))

Returns(v) ==
    /\ ~ret.done
    /\ ret' = [done |-> TRUE, val |-> v]
    /\ UNCHANGED <<handlerVars, call, retry, limiter>>

CallValidateFiles ==
    /\ call.fn = "ValidateFiles"
    /\ \E r \in ValidateFilesReturns(call.raw) : Returns(r)

CallValidateFileCount ==
    /\ call.fn = "ValidateFileCount"
    /\ Returns(ValidateFileCount(call.count, call.maxFiles))

CallValidateFileSize ==
    /\ call.fn = "ValidateFileSize"
    /\ Returns(ValidateFileSize(call.path, call.size))

CallValidateTotalSize ==
    /\ call.fn = "ValidateTotalSize"
    /\ Returns(ValidateTotalSize(call.totalSize))

CallValidateChunkSize ==
    /\ call.fn = "ValidateChunkSize"
    /\ Returns(ValidateChunkSize(call.files))

\* push_files_chunked on the request of the call, when it rejects it.
RejectRequest ==
    /\ call.fn = "push_files_chunked"
    /\ RejectFrom({call.raw})

NextValidate ==
    \/ CallValidateFiles
    \/ CallValidateFileCount
    \/ CallValidateFileSize
    \/ CallValidateTotalSize
    \/ CallValidateChunkSize
    \/ RejectRequest
    \/ BeginChunk
    \/ GetRef
    \/ GetCommit
    \/ CreateTree
    \/ CreateCommit
    \/ UpdateRef
    \/ Finish

SpecValidate == InitValidate /\ [][NextValidate]_vars

----------------------------------------------------------------------------
\* bulk_delete_files.  The request is the record call: whether the required
\* string parameters are present, whether paths is an array, and the array
\* (NoString stands for an element that is not a string).  The branch
\* holds the files 1 .. MaxPaths before the call; result is the handler's
\* result map.

MaxPaths == 2
MaxFilesPerPush == 3

PathValues == {NoString, EmptyString} \cup (1 .. MaxPaths)

DeleteRequests ==
    {[fn |-> "bulk_delete_files", paramsOk |-> ok, isArray |-> arr, paths |-> ps] :
        ok \in BOOLEAN, arr \in {TRUE},
        ps \in UNION {[1 .. n -> PathValues] : n \in 0 .. MaxFilesPerPush + 1}}
    \cup {[fn |-> "bulk_delete_files", paramsOk |-> TRUE, isArray |-> FALSE,
           paths |-> <<>>]}

DeleteSha == ChunkSha(1)

\* Mutant: a list of exactly MaxFilesPerPush paths is refused.
TooManyPaths_AtLimit(n) == n >= MaxFilesPerPush

TooManyPaths(n) == n > MaxFilesPerPush

\* The indices of the elements that are not a non-empty string.
BadPaths(ps) == {i \in 1 .. Len(ps) : ps[i] \in {NoString, EmptyString}}

\* The error the handler returns before any remote call, or NoResponse.
DeleteRejection(req) ==
    IF ~req.paramsOk
    THEN ToolError("MISSING_PARAM", -1, EmptyString, 0, <<>>)
    ELSE IF ~req.isArray
    THEN ToolError("PATHS_NOT_ARRAY", -1, EmptyString, 0, <<>>)
    ELSE IF Len(req.paths) = 0
    THEN ToolError("PATHS_EMPTY", -1, EmptyString, 0, <<>>)
    ELSE IF TooManyPaths(Len(req.paths))
    THEN ToolError("TOO_MANY_FILES", -1, EmptyString, Len(req.paths), <<>>)
    ELSE IF BadPaths(req.paths) # {}
    THEN ToolError("PATH_INVALID",
                   (CHOOSE i \in BadPaths(req.paths) :
                       \A j \in BadPaths(req.paths) : i <= j) - 1,
                   EmptyString, 0, <<>>)
    ELSE NoResponse

\* Mutant: the tree is built from the first path only.
DeleteEntries_First(ps) == {ps[1]}

\* The tree entries of the deletion: one entry without SHA for every path.
DeleteEntries(ps) == {ps[i] : i \in 1 .. Len(ps)}

\* The result map of a successful call.
DeleteResult(ps, sha) ==
    [commit_sha |-> sha, deleted_files |-> ps, files_deleted |-> Len(ps),
     ref |-> "refs/heads/branch"]

InitDelete ==
    /\ pc = "idle"
    /\ args = [chunkSize |-> 0, continueOnError |-> FALSE]
    /\ files = <<>>
    /\ chunkSize = 0
    /\ chunks = <<>>
    /\ chunkIdx = 0
    /\ result = EmptyResult
    /\ response = NoResponse
    /\ local = NoLocal
    /\ branchTip = InitialTip
    /\ commits = [s \in {InitialTip} |-> [parent |-> NoSHA, tree |-> 1 .. MaxPaths]]
    /\ calls = <<>>
    /\ stats = EmptyStats
    /\ cancelled = FALSE
    /\ failures = 0
    /\ externals = 0
    /\ call \in DeleteRequests
    /\ ret = NoReturn
    /\ retry = NoRetry
    /\ limiter = NoLimiter

\* The parameter checks, up to getClient.
DeleteValidate ==
    /\ pc = "idle"
    /\ call.fn = "bulk_delete_files"
    /\ IF DeleteRejection(call) # NoResponse
       THEN /\ response' = DeleteRejection(call)
            /\ pc' = "done"
       ELSE /\ pc' = "del_client"
            /\ UNCHANGED response
    /\ UNCHANGED <<planVars, chunkIdx, result, local, remoteVars, envVars, libVars>>

DeleteGetClientFails ==
    /\ pc = "del_client"
    /\ pc' = "done"
    /\ response' = [NoResponse EXCEPT !.kind = "goError", !.code = "GET_CLIENT"]
    /\ UNCHANGED <<planVars, chunkIdx, result, local, remoteVars, envVars, libVars>>

\* A remote call of the handler failed: its error is the response.
DeleteFails(msg) ==
    /\ response' = ToolError(msg, -1, EmptyString, 0, <<>>)
    /\ local' = NoLocal
    /\ pc' = "done"

DeleteGetRef ==
    /\ pc = "del_client"
    /\ \E ok \in CallOutcomes :
          /\ Issue("GetRef", ok, ok)
          /\ IF ok
             THEN /\ local' = [local EXCEPT !.ref = branchTip]
                  /\ pc' = "del_getcommit"
                  /\ UNCHANGED response
             ELSE DeleteFails("failed to get branch reference")
    /\ UNCHANGED <<planVars, chunkIdx, result, branchTip, commits>>

DeleteGetCommit ==
    /\ pc = "del_getcommit"
    /\ \E ok \in CallOutcomes :
          /\ Issue("GetCommit", ok, ok)
          /\ IF ok
             THEN /\ local' = [local EXCEPT !.baseCommit = local.ref,
                                            !.baseTree = commits[local.ref].tree]
                  /\ pc' = "del_createtree"
                  /\ UNCHANGED response
             ELSE DeleteFails("failed to get base commit")
    /\ UNCHANGED <<planVars, chunkIdx, result, branchTip, commits>>

DeleteCreateTree ==
    /\ pc = "del_createtree"
    /\ \E ok \in CallOutcomes :
          /\ Issue("CreateTree", ok, ok)
          /\ IF ok
             THEN /\ local' = [local EXCEPT !.newTree =
                                  local.baseTree \ DeleteEntries(call.paths)]
                  /\ pc' = "del_createcommit"
                  /\ UNCHANGED response
             ELSE DeleteFails("failed to create tree")
    /\ UNCHANGED <<planVars, chunkIdx, result, branchTip, commits>>

DeleteCreateCommit ==
    /\ pc = "del_createcommit"
    /\ \E ok \in CallOutcomes :
          /\ Issue("CreateCommit", ok, ok)
          /\ IF ok
             THEN /\ local' = [local EXCEPT !.newCommit = DeleteSha]
                  /\ commits' = [s \in DOMAIN commits \cup {DeleteSha} |->
                        IF s = DeleteSha THEN NewCommitObject(local)
                        ELSE commits[s]]
                  /\ pc' = "del_updateref"
                  /\ UNCHANGED response
             ELSE /\ DeleteFails("failed to create commit")
                  /\ UNCHANGED commits
    /\ UNCHANGED <<planVars, chunkIdx, result, branchTip>>

DeleteUpdateRef ==
    /\ pc = "del_updateref"
    /\ \E sent \in CallOutcomes :
          LET ok == sent /\ UpdateRefAccepted(commits, branchTip,
                                               local.newCommit, UpdateRefForce)
          IN  /\ Issue("UpdateRef", sent, ok)
              /\ IF ok
                 THEN /\ branchTip' = local.newCommit
                      /\ result' = DeleteResult(call.paths, local.newCommit)
                      /\ response' = TextResponse
                      /\ local' = NoLocal
                      /\ pc' = "done"
                 ELSE /\ DeleteFails("failed to update reference")
                      /\ UNCHANGED <<result, branchTip>>
    /\ UNCHANGED <<planVars, chunkIdx, commits>>

NextDelete ==
    \/ DeleteValidate
    \/ DeleteGetClientFails
    \/ DeleteGetRef
    \/ DeleteGetCommit
    \/ DeleteCreateTree
    \/ DeleteCreateCommit
    \/ DeleteUpdateRef
    \/ ExternalPush
    \/ Cancel

SpecDelete == InitDelete /\ [][NextDelete]_vars

----------------------------------------------------------------------------
\* ratelimit.go: RetryWithBackoff.  Durations are whole units of time,
\* BackoffFactor is given in hundredths; the error of the n-th invocation
\* of the operation is the number n.

Nil == 0
CtxErr == -1
OpError(n) == n

\* The configurations of a call: a budget from -1 on, an initial backoff
\* below and above the cap, a shrinking factor, one whose product is
\* truncated, and a doubling one.
RetryConfigs ==
    [MaxRetries : -1 .. RetriesBound, InitialBackoff : {1, 3},
     MaxBackoff : {2, 4}, BackoffFactor : {50, 150, 200}]

\* The locals at the entry of RetryWithBackoff; errs and waits record the
\* results of the invocations and the waits that ran to their end.
RetryEntered(cfg) ==
    [pc |-> "loop", cfg |-> cfg, attempt |-> 0,
     backoff |-> cfg.InitialBackoff, lastErr |-> Nil, ctxDone |-> FALSE,
     woken |-> "none", errs |-> <<>>, waits |-> <<>>, returned |-> Nil]

InitRetry ==
    /\ HandlerAtRest
    /\ call = NoCall
    /\ ret = NoReturn
    /\ limiter = NoLimiter
    /\ \E cfg \in RetryConfigs : retry = RetryEntered(cfg)

\* Mutant: the loop ends one attempt early.
LoopContinues_Short(attempt, maxRetries) == attempt < maxRetries

\* The for loop's condition.
LoopContinues(attempt, maxRetries) == attempt <= maxRetries

\* Mutant: the success of an attempt is not noticed.
AttemptSucceeded_Never(err) == FALSE

AttemptSucceeded(err) == err = Nil

IsLastAttempt(attempt, maxRetries) == attempt = maxRetries

\* Mutant: the look at ctx.Done() after a failed attempt is left out.
SeesCancellation_Never(ctxDone) == FALSE

\* The non-blocking select on ctx.Done() after a failed attempt.
SeesCancellation(ctxDone) == ctxDone

\* Mutant: the cap on the backoff is left out.
NextBackoff_NoCap(backoff, cfg) == (backoff * cfg.BackoffFactor) \div 100

\* The backoff of the next wait: multiplied, truncated, capped.
NextBackoff(backoff, cfg) ==
    LET b == (backoff * cfg.BackoffFactor) \div 100
    IN  IF b > cfg.MaxBackoff THEN cfg.MaxBackoff ELSE b

RetryReturn(r, err) == [r EXCEPT !.pc = "returned", !.returned = err]

\* The loop condition holds and fn() is invoked: it returns nil or an error.
RetryAttempt ==
    /\ retry.pc = "loop"
    /\ LoopContinues(retry.attempt, retry.cfg.MaxRetries)
    /\ \E err \in {Nil, OpError(Len(retry.errs) + 1)} :
          LET r == [retry EXCEPT !.lastErr = err, !.errs = Append(@, err)]
          IN  retry' = IF AttemptSucceeded(err)
                       THEN RetryReturn(r, Nil)
                       ELSE [r EXCEPT !.pc = "check"]
    /\ UNCHANGED <<handlerVars, call, ret, limiter>>

\* The loop condition fails: return lastErr.
RetryLoopEnds ==
    /\ retry.pc = "loop"
    /\ ~LoopContinues(retry.attempt, retry.cfg.MaxRetries)
    /\ retry' = RetryReturn(retry, retry.lastErr)
    /\ UNCHANGED <<handlerVars, call, ret, limiter>>

\* After a failed attempt: the non-blocking look at ctx.Done() and the
\* break at the last attempt.
RetryCheck ==
    /\ retry.pc = "check"
    /\ retry' = IF SeesCancellation(retry.ctxDone) THEN RetryReturn(retry, CtxErr)
                 ELSE IF IsLastAttempt(retry.attempt, retry.cfg.MaxRetries)
                 THEN RetryReturn(retry, retry.lastErr)
                 ELSE [retry EXCEPT !.pc = "wait"]
    /\ UNCHANGED <<handlerVars, call, ret, limiter>>

\* The select finds neither case ready and the goroutine parks on both
\* channels.
RetryPark ==
    /\ retry.pc = "wait"
    /\ ~retry.ctxDone
    /\ retry.backoff > 0
    /\ retry' = [retry EXCEPT !.pc = "parked", !.woken = "none"]
    /\ UNCHANGED <<handlerVars, call, ret, limiter>>

\* The timer of the wait fires before the context is cancelled and wakes
\* the goroutine.
RetryTimerFires ==
    /\ retry.pc = "parked"
    /\ retry.woken = "none"
    /\ retry' = [retry EXCEPT !.woken = "timer"]
    /\ UNCHANGED <<handlerVars, call, ret, limiter>>

\* The select takes the ctx.Done() case: it was ready at entry, or its
\* closing woke the parked goroutine.
RetryWaitCancelled ==
    /\ \/ retry.pc = "wait" /\ retry.ctxDone
       \/ retry.pc = "parked" /\ retry.woken = "ctx"
    /\ retry' = RetryReturn(retry, CtxErr)
    /\ UNCHANGED <<handlerVars, call, ret, limiter>>

\* The select takes the time.After case: a backoff that is not positive
\* has run out at entry (when both cases are ready Go picks either), or the
\* timer woke the parked goroutine.  The wait is over, the backoff grows,
\* the loop steps.
RetryWaitElapsed ==
    /\ \/ retry.pc = "wait" /\ retry.backoff <= 0
       \/ retry.pc = "parked" /\ retry.woken = "timer"
    /\ retry' = [retry EXCEPT !.waits = Append(@, retry.backoff),
                              !.backoff = NextBackoff(retry.backoff, retry.cfg),
                              !.attempt = @ + 1,
                              !.woken = "none",
                              !.pc = "loop"]
    /\ UNCHANGED <<handlerVars, call, ret, limiter>>

\* The context of the call is cancelled; a goroutine parked in the select
\* is woken by it.
RetryCancel ==
    /\ retry.pc \in {"loop", "check", "wait", "parked"}
    /\ ~retry.ctxDone
    /\ retry' = [retry EXCEPT
                     !.ctxDone = TRUE,
                     !.woken = IF retry.pc = "parked" /\ @ = "none"
                               THEN "ctx" ELSE @]
    /\ UNCHANGED <<handlerVars, call, ret, limiter>>

NextRetry ==
    \/ RetryAttempt
    \/ RetryLoopEnds
    \/ RetryCheck
    \/ RetryPark
    \/ RetryTimerFires
    \/ RetryWaitCancelled
    \/ RetryWaitElapsed
    \/ RetryCancel

SpecRetry == InitRetry /\ [][NextRetry]_vars

----------------------------------------------------------------------------
\* ratelimit.RateLimiter used by several goroutines: three token buckets,
\* the statistics and the mutex that guards them.  A bucket holds whole
\* tokens; time passing adds one, up to the burst.  The statistics are the
\* variable stats.

Classes == {"core", "search", "graphql"}

\* Calls started in total, tokens that time adds.
MaxCalls == 3
MaxRefills == 1

\* The goroutines calling the limiter: two, so that a writer of the
\* statistics meets another writer or a reader.
Goroutines == {1, 2}

\* The burst sizes given to rate.NewLimiter.
CoreBurst == 10
SearchBurst == 5
GraphQLBurst == 10

\* Mutant: every bucket is given the burst of the core bucket.
Burst_Core(class) == CoreBurst

Burst(class) ==
    CASE class = "core" -> CoreBurst
      [] class = "search" -> SearchBurst
      [] class = "graphql" -> GraphQLBurst

\* Token levels the buckets start from: every bucket full, as New leaves
\* them, or used down to its last token or to none.
InitLevels ==
    {[c \in Classes |-> Burst(c)]} \cup [Classes -> {0, 1}]

\* Milliseconds between start and the return of Wait, as time.Since reports.
Elapsed == {0, 1}

\* Mutant: every method goes to the core bucket.
BucketOf_Core(class) == "core"

\* The bucket a method of a class uses: r.core, r.search or r.graphql.
BucketOf(class) == class

\* Mutant: every Wait method counts in CoreWaits.
WaitCounter_Core(class) == "CoreWaits"

\* The counter a Wait method of a class increments.
WaitCounter(class) ==
    CASE class = "core" -> "CoreWaits"
      [] class = "search" -> "SearchWaits"
      [] class = "graphql" -> "GraphQLWaits"

\* Mutant: the Allow methods count like the Wait methods.
StatsAfterAllow_Counted(s, class) ==
    [s EXCEPT ![WaitCounter(class)] = @ + 1]

\* The statistics after an Allow method: it does not touch them.
StatsAfterAllow(s, class) == s

\* Mutant: ResetStats leaves the total wait time.
ResetMs_Kept(ms) == ms

\* The TotalWaitMs of Stats{}.
ResetMs(ms) == 0

\* Mutant: Lock does not wait for the holders of the mutex.
LockFree_Always(writers, readers) == TRUE

\* r.mu.Lock() goes through when nobody holds the mutex.
LockFree(writers, readers) == writers = {} /\ readers = {}

\* r.mu.RLock() goes through when no writer holds the mutex.
RLockFree(writers) == writers = {}

\* A goroutine outside any call.  In a call: class is the class of the
\* method, tmp the counter value read for the increment, before the
\* statistics found when the mutex was taken, out what Allow returned, snap
\* the copy GetStats made, torn whether that copy was made while a writer
\* was between two writes.
IdleGoroutine ==
    [pc |-> "idle", class |-> "none", ctxDone |-> FALSE, tmp |-> 0,
     before |-> EmptyStats, out |-> "none", snap |-> EmptyStats,
     torn |-> FALSE]

NoCounts == [c \in Classes |-> 0]

\* started: the calls made so far, budget: the calls the run may make.
\* counted: per class, the counter updates since the latest ResetStats.
\* reset: "no" until a ResetStats has written the whole record and again
\* once an acquire has counted; "zeroed" when the ResetStats found a record
\* that was not zero, "done" when it found a zero one.
NewLimiter(tokens) ==
    [on |-> TRUE, tokens |-> tokens, writers |-> {}, readers |-> {},
     g |-> [p \in Goroutines |-> IdleGoroutine], counted |-> NoCounts,
     reset |-> "no", started |-> 0, budget |-> MaxCalls, refills |-> 0]

limiterFrame == <<pc, planVars, chunkIdx, result, response, local, remoteVars,
                  cancelled, failures, externals, call, ret, retry>>

InitLimiter ==
    /\ HandlerAtRest
    /\ call = NoCall
    /\ ret = NoReturn
    /\ retry = NoRetry
    /\ \E tokens \in InitLevels : limiter = NewLimiter(tokens)

\* A stretch of time adds a token to a bucket that is not full.
Refill(c) ==
    /\ limiter.refills < MaxRefills
    /\ limiter.tokens[c] < Burst(c)
    /\ limiter' = [limiter EXCEPT !.tokens[c] = @ + 1, !.refills = @ + 1]
    /\ UNCHANGED <<stats, limiterFrame>>

\* WaitCore, WaitSearch, WaitGraphQL: start := time.Now() and the call of
\* Wait on the bucket of the class.
StartWait(p, c) ==
    /\ limiter.g[p].pc = "idle"
    /\ limiter.started < limiter.budget
    /\ limiter' = [limiter EXCEPT
                      !.g[p] = [IdleGoroutine EXCEPT !.pc = "waiting",
                                                     !.class = c],
                      !.started = @ + 1]
    /\ UNCHANGED <<stats, limiterFrame>>

\* The context of a waiting goroutine is cancelled.
CancelCtx(p) ==
    /\ limiter.g[p].pc = "waiting"
    /\ ~limiter.g[p].ctxDone
    /\ limiter' = [limiter EXCEPT !.g[p].ctxDone = TRUE]
    /\ UNCHANGED <<stats, limiterFrame>>

\* Wait returns nil: the bucket had a token for the goroutine.
WaitAcquires(p) ==
    /\ limiter.g[p].pc = "waiting"
    /\ ~limiter.g[p].ctxDone
    /\ limiter.tokens[BucketOf(limiter.g[p].class)] >= 1
    /\ limiter' = [limiter EXCEPT
                      !.tokens[BucketOf(limiter.g[p].class)] = @ - 1,
                      !.g[p].pc = "acquired"]
    /\ UNCHANGED <<stats, limiterFrame>>

\* Wait returns the error of the context; the method returns it.
WaitFails(p) ==
    /\ limiter.g[p].pc = "waiting"
    /\ limiter.g[p].ctxDone
    /\ limiter' = [limiter EXCEPT !.g[p] = IdleGoroutine]
    /\ UNCHANGED <<stats, limiterFrame>>

\* err == nil: r.mu.Lock().
StatsLock(p) ==
    /\ limiter.g[p].pc = "acquired"
    /\ LockFree(limiter.writers, limiter.readers)
    /\ limiter' = [limiter EXCEPT !.writers = @ \cup {p},
                                  !.g[p].pc = "locked",
                                  !.g[p].before = stats]
    /\ UNCHANGED <<stats, limiterFrame>>

\* r.stats.CoreWaits++ reads the counter ...
StatsLoad(p) ==
    /\ limiter.g[p].pc = "locked"
    /\ limiter' = [limiter EXCEPT
                      !.g[p].pc = "loaded",
                      !.g[p].tmp = stats[WaitCounter(limiter.g[p].class)]]
    /\ UNCHANGED <<stats, limiterFrame>>

\* ... and writes it back, one higher.
StatsStore(p) ==
    /\ limiter.g[p].pc = "loaded"
    /\ stats' = [stats EXCEPT ![WaitCounter(limiter.g[p].class)] =
                                  limiter.g[p].tmp + 1]
    /\ limiter' = [limiter EXCEPT !.g[p].pc = "stored",
                                  !.g[p].tmp = 0,
                                  !.counted[limiter.g[p].class] = @ + 1,
                                  !.reset = "no"]
    /\ UNCHANGED limiterFrame

\* r.stats.TotalWaitMs += time.Since(start).Milliseconds().
StatsAddMs(p) ==
    /\ limiter.g[p].pc = "stored"
    /\ \E d \in Elapsed : stats' = [stats EXCEPT !.TotalWaitMs = @ + d]
    /\ limiter' = [limiter EXCEPT !.g[p].pc = "added"]
    /\ UNCHANGED limiterFrame

\* r.mu.Unlock(); return err, which is nil.
StatsUnlock(p) ==
    /\ limiter.g[p].pc = "added"
    /\ limiter' = [limiter EXCEPT !.writers = @ \ {p},
                                  !.g[p] = IdleGoroutine]
    /\ UNCHANGED <<stats, limiterFrame>>

\* AllowCore, AllowSearch, AllowGraphQL: Allow on the bucket of the class
\* takes a token when there is one.
AllowCall(p, c) ==
    /\ limiter.g[p].pc = "idle"
    /\ limiter.started < limiter.budget
    /\ LET ok == limiter.tokens[BucketOf(c)] >= 1
       IN  limiter' = [limiter EXCEPT
                          !.tokens[BucketOf(c)] = IF ok THEN @ - 1 ELSE @,
                          !.g[p] = [IdleGoroutine EXCEPT
                                       !.pc = "allowed", !.class = c,
                                       !.out = IF ok THEN "true" ELSE "false"],
                          !.started = @ + 1]
    /\ stats' = StatsAfterAllow(stats, c)
    /\ UNCHANGED limiterFrame

\* The Allow method returns what Allow returned.
AllowReturn(p) ==
    /\ limiter.g[p].pc = "allowed"
    /\ limiter' = [limiter EXCEPT !.g[p] = IdleGoroutine]
    /\ UNCHANGED <<stats, limiterFrame>>

\* GetStats: r.mu.RLock().
GetStatsRLock(p) ==
    /\ limiter.g[p].pc = "idle"
    /\ limiter.started < limiter.budget
    /\ RLockFree(limiter.writers)
    /\ limiter' = [limiter EXCEPT
                      !.readers = @ \cup {p},
                      !.g[p] = [IdleGoroutine EXCEPT !.pc = "rlocked"],
                      !.started = @ + 1]
    /\ UNCHANGED <<stats, limiterFrame>>

\* A writer is between its first and its last write of the record.
MidWrite(q) == limiter.g[q].pc \in {"stored", "halfreset"}

\* GetStats: the copy of r.stats that is returned.
GetStatsRead(p) ==
    /\ limiter.g[p].pc = "rlocked"
    /\ limiter' = [limiter EXCEPT
                      !.g[p].pc = "read",
                      !.g[p].snap = stats,
                      !.g[p].torn = \E q \in Goroutines : MidWrite(q)]
    /\ UNCHANGED <<stats, limiterFrame>>

\* GetStats: the deferred r.mu.RUnlock().
GetStatsRUnlock(p) ==
    /\ limiter.g[p].pc = "read"
    /\ limiter' = [limiter EXCEPT !.readers = @ \ {p},
                                  !.g[p] = IdleGoroutine]
    /\ UNCHANGED <<stats, limiterFrame>>

\* ResetStats: r.mu.Lock().
ResetLock(p) ==
    /\ limiter.g[p].pc = "idle"
    /\ limiter.started < limiter.budget
    /\ LockFree(limiter.writers, limiter.readers)
    /\ limiter' = [limiter EXCEPT
                      !.writers = @ \cup {p},
                      !.g[p] = [IdleGoroutine EXCEPT !.pc = "resetting",
                                                     !.before = stats],
                      !.started = @ + 1]
    /\ UNCHANGED <<stats, limiterFrame>>

\* ResetStats: r.stats = Stats{} writes the wait counters ...
ResetCounters(p) ==
    /\ limiter.g[p].pc = "resetting"
    /\ stats' = [stats EXCEPT !.CoreWaits = 0, !.SearchWaits = 0,
                              !.GraphQLWaits = 0]
    /\ limiter' = [limiter EXCEPT !.g[p].pc = "halfreset",
                                  !.counted = NoCounts]
    /\ UNCHANGED limiterFrame

\* ... and the total wait time.
ResetTotal(p) ==
    /\ limiter.g[p].pc = "halfreset"
    /\ stats' = [stats EXCEPT !.TotalWaitMs = ResetMs(@)]
    /\ limiter' = [limiter EXCEPT
                      !.g[p].pc = "reset",
                      !.reset = IF limiter.g[p].before = EmptyStats
                                THEN "done" ELSE "zeroed"]
    /\ UNCHANGED limiterFrame

\* ResetStats: r.mu.Unlock().
ResetUnlock(p) ==
    /\ limiter.g[p].pc = "reset"
    /\ limiter' = [limiter EXCEPT !.writers = @ \ {p},
                                  !.g[p] = IdleGoroutine]
    /\ UNCHANGED <<stats, limiterFrame>>

NextLimiter ==
    \/ \E c \in Classes : Refill(c)
    \/ \E p \in Goroutines, c \in Classes : StartWait(p, c)
    \/ \E p \in Goroutines : CancelCtx(p)
    \/ \E p \in Goroutines : WaitAcquires(p)
    \/ \E p \in Goroutines : WaitFails(p)
    \/ \E p \in Goroutines : StatsLock(p)
    \/ \E p \in Goroutines : StatsLoad(p)
    \/ \E p \in Goroutines : StatsStore(p)
    \/ \E p \in Goroutines : StatsAddMs(p)
    \/ \E p \in Goroutines : StatsUnlock(p)
    \/ \E p \in Goroutines, c \in Classes : AllowCall(p, c)
    \/ \E p \in Goroutines : AllowReturn(p)
    \/ \E p \in Goroutines : GetStatsRLock(p)
    \/ \E p \in Goroutines : GetStatsRead(p)
    \/ \E p \in Goroutines : GetStatsRUnlock(p)
    \/ \E p \in Goroutines : ResetLock(p)
    \/ \E p \in Goroutines : ResetCounters(p)
    \/ \E p \in Goroutines : ResetTotal(p)
    \/ \E p \in Goroutines : ResetUnlock(p)

SpecLimiter == InitLimiter /\ [][NextLimiter]_vars

----------------------------------------------------------------------------
\* The limiter while time keeps advancing and the scheduler runs every
\* goroutine that can take a step.

\* Time passes while a caller waits on an empty bucket: the bucket gets a
\* token (the rate of every bucket is positive).
TimePasses(c) ==
    /\ limiter.tokens[c] = 0
    /\ \E p \in Goroutines :
          limiter.g[p].pc = "waiting" /\ BucketOf(limiter.g[p].class) = c
    /\ limiter' = [limiter EXCEPT !.tokens[c] = 1]
    /\ UNCHANGED <<stats, limiterFrame>>

\* The Wait methods of the classes, called by the goroutines.
NextLimiterFair ==
    \/ \E c \in Classes : TimePasses(c)
    \/ \E p \in Goroutines, c \in Classes : StartWait(p, c)
    \/ \E p \in Goroutines : CancelCtx(p)
    \/ \E p \in Goroutines : WaitAcquires(p)
    \/ \E p \in Goroutines : WaitFails(p)
    \/ \E p \in Goroutines : StatsLock(p)
    \/ \E p \in Goroutines : StatsLoad(p)
    \/ \E p \in Goroutines : StatsStore(p)
    \/ \E p \in Goroutines : StatsAddMs(p)
    \/ \E p \in Goroutines : StatsUnlock(p)

\* Every goroutine inside a method goes on: the bucket serves its waiters
\* in the order of their reservations and the mutex hands itself to each
\* of its waiters, so a step that is possible again and again is taken;
\* the other steps of a method (at most one of them is possible at a time)
\* are taken when they stay possible.  Starting a call and cancelling a
\* context are left to the callers.
LimiterFairness ==
    /\ \A c \in Classes : WF_vars(TimePasses(c))
    /\ \A p \in Goroutines :
          /\ SF_vars(WaitAcquires(p))
          /\ SF_vars(StatsLock(p))
          /\ WF_vars(\/ WaitFails(p)
                      \/ StatsLoad(p)
                      \/ StatsStore(p)
                      \/ StatsAddMs(p)
                      \/ StatsUnlock(p))

\* The limiter as New leaves it, or with every bucket used up.
InitLimiterFair ==
    /\ HandlerAtRest
    /\ call = NoCall
    /\ ret = NoReturn
    /\ retry = NoRetry
    /\ \E n \in {0, 1} :
          limiter = NewLimiter([c \in Classes |-> n * Burst(c)])

SpecLimiterFair ==
    InitLimiterFair /\ [][NextLimiterFair]_vars /\ LimiterFairness

----------------------------------------------------------------------------
\* A limiter as New returns it, asked by the Allow method of one class
\* again and again (ratelimit_test.go, TestRateLimiter_AllowCore); call
\* names the class.

\* Calls of a run: enough to empty the largest bucket and ask twice more.
MaxBurstCalls == 12

InitBurst ==
    /\ HandlerAtRest
    /\ \E c \in Classes : call = [fn |-> "Allow", class |-> c]
    /\ ret = NoReturn
    /\ retry = NoRetry
    /\ limiter = [NewLimiter([c \in Classes |-> Burst(c)])
                     EXCEPT !.budget = MaxBurstCalls]

NextBurst ==
    \/ \E p \in Goroutines : AllowCall(p, call.class)
    \/ \E p \in Goroutines : AllowReturn(p)
    \/ \E c \in Classes : Refill(c)

SpecBurst == InitBurst /\ [][NextBurst]_vars

----------------------------------------------------------------------------
\* Properties.

PipelineSteps == {"getref", "getcommit", "createtree", "createcommit", "updateref"}

\* The chunks have been planned.
Planned == pc \in PipelineSteps \cup {"loop"} \/ (pc = "done" /\ response.kind = "text")

\* The run is over and returned a result record.
Completed == pc = "done" /\ response.kind = "text"

Outcomes == result.Chunks

NumWhere(seq, ok) == Cardinality({i \in 1 .. Len(seq) : seq[i].Success = ok})

CallsOf(k, op) == {i \in 1 .. Len(calls) : calls[i].chunk = k /\ calls[i].op = op}

\* C1 - Chunk coverage: once the chunks are planned, their concatenation in
\* chunk order is the validated file list itself: no file is dropped,
\* moved or repeated.
C1_ChunkCoverage == Planned => Flatten(chunks) = files

C1_Witness ==
    /\ Planned
    /\ Len(chunks) >= 2
    /\ \E i \in 1 .. Len(chunks) : Len(chunks[i]) >= 2
    /\ Flatten(chunks) = files

\* C2 - Chunk capacity: the file-count limit is the requested chunk_size
\* clamped to 1 .. MaxChunkSize; every planned chunk is non-empty, holds at
\* most that many files, and at most GetMaxChunkSize bytes unless it is a
\* single file larger than that.
C2_ChunkCapacity ==
    Planned =>
        /\ chunkSize = Max(1, IF args.chunkSize > MaxChunkSize
                              THEN MaxChunkSize ELSE args.chunkSize)
        /\ \A i \in 1 .. Len(chunks) :
              /\ Len(chunks[i]) >= 1
              /\ Len(chunks[i]) <= chunkSize
              /\ \/ SumSizes(chunks[i]) <= GetMaxChunkSize
                 \/ /\ Len(chunks[i]) = 1
                    /\ chunks[i][1].Content > GetMaxChunkSize

\* A chunk closed by the byte ceiling before it reached the clamped count.
C2_Witness ==
    /\ Planned
    /\ args.chunkSize > MaxChunkSize
    /\ \E i \in 1 .. Len(chunks) - 1 :
          /\ Len(chunks[i]) < chunkSize
          /\ SumSizes(chunks[i]) + chunks[i + 1][1].Content > GetMaxChunkSize

\* C3 - Outcome accounting: at every point of a run successful_chunks and
\* failed_chunks count the successful and the failed outcomes recorded, their
\* sum is the number of outcomes, which is at most total_chunks; when the run
\* has completed, also after an early stop, fully_successful is true iff
\* failed_chunks is zero.
C3_OutcomeAccounting ==
    /\ result.SuccessfulChunks = NumWhere(Outcomes, TRUE)
    /\ result.FailedChunks = NumWhere(Outcomes, FALSE)
    /\ result.SuccessfulChunks + result.FailedChunks = Len(Outcomes)
    /\ Len(Outcomes) <= result.TotalChunks
    /\ Completed => (result.FullySuccessful <=> result.FailedChunks = 0)

\* A run that stopped early after a success.
C3_Witness ==
    /\ Completed
    /\ Len(Outcomes) < result.TotalChunks
    /\ result.SuccessfulChunks >= 1
    /\ result.FailedChunks = 1

\* C4 - Abort on first failure: without continue_on_error, as soon as a
\* failed outcome is recorded the run is over; the outcomes are chunks 1..k
\* with only chunk k failed, the counters are k-1 and 1, total_chunks is the
\* planned number, fully_successful is false, and no remote call was issued
\* for a chunk after k.
C4_AbortOnFirstFailure ==
    (~args.continueOnError /\ NumWhere(Outcomes, FALSE) > 0) =>
        LET k == Len(Outcomes)
        IN  /\ Completed
            /\ ~Outcomes[k].Success
            /\ \A i \in 1 .. k : Outcomes[i].ChunkIndex = i
            /\ \A i \in 1 .. k - 1 : Outcomes[i].Success
            /\ result.FailedChunks = 1
            /\ result.SuccessfulChunks = k - 1
            /\ result.TotalChunks = Len(chunks)
            /\ ~result.FullySuccessful
            /\ \A c \in 1 .. Len(calls) : calls[c].chunk <= k

\* Chunk 2 of 3 failed: two outcomes, chunk 3 never attempted.
C4_Witness ==
    /\ ~args.continueOnError
    /\ Completed
    /\ result.TotalChunks >= 3
    /\ Len(Outcomes) = 2
    /\ ~Outcomes[2].Success
    /\ CallsOf(3, "GetRef") = {}

\* C5 - Continue on error: with continue_on_error a completed run has one
\* outcome per planned chunk, in planned order, and every planned chunk was
\* started exactly once (one get-ref call), in chunk order.
C5_ContinueOnError ==
    (args.continueOnError /\ Completed) =>
        /\ Len(Outcomes) = Len(chunks)
        /\ result.TotalChunks = Len(chunks)
        /\ \A i \in 1 .. Len(Outcomes) :
              /\ Outcomes[i].ChunkIndex = i
              /\ Outcomes[i].Files = PathsOf(chunks[i])
              /\ Cardinality(CallsOf(i, "GetRef")) = 1
        /\ \A c \in 1 .. Len(calls) - 1 : calls[c].chunk <= calls[c + 1].chunk

\* A chunk succeeded after an earlier chunk had failed.
C5_Witness ==
    /\ args.continueOnError
    /\ Completed
    /\ \E i \in 1 .. Len(Outcomes) : \E j \in 1 .. Len(Outcomes) :
          i < j /\ ~Outcomes[i].Success /\ Outcomes[j].Success

\* C6 - Sequential chunk processing: the only chunk with calls in flight is
\* the one at chunkIdx, all chunks before it have their outcome; each remote
\* call of chunk N was issued when exactly the N-1 chunks before it had
\* their outcome recorded, and the call just before chunk N's first call is
\* the previous chunk's update-ref or a failed call.
C6_Sequential ==
    /\ pc \in PipelineSteps => Len(Outcomes) = chunkIdx - 1
    /\ \A c \in 1 .. Len(calls) :
          /\ calls[c].recorded = calls[c].chunk - 1
          /\ calls[c].chunk <= chunkIdx
          /\ (c > 1 /\ calls[c - 1].chunk # calls[c].chunk) =>
                /\ calls[c - 1].chunk < calls[c].chunk
                /\ calls[c].op = "GetRef"
                /\ calls[c - 1].op = "UpdateRef" \/ ~calls[c - 1].ok

\* The third chunk is in its pipeline after the first succeeded and the
\* second failed.
C6_Witness ==
    /\ pc = "createtree"
    /\ chunkIdx = 3
    /\ Outcomes[1].Success
    /\ ~Outcomes[2].Success

Last(seq) == seq[Len(seq)]

\* C7 - Rate-limiter gating: every remote call of the pipeline is preceded
\* by a successful acquire of the core class, so the calls issued never
\* outnumber the successful core acquires.
C7_EveryCallGated == Len(calls) <= stats.CoreWaits

\* A step of the handler, as opposed to one of another writer.
HandlerStep == externals' = externals

\* C8 - Branch unchanged until step 5: a step of the handler changes the
\* branch reference only when it is an update-ref call that returned without
\* error, and then to the commit of the chunk recorded as successful; a step
\* that records a failure of the size check, get-ref, get-commit,
\* create-tree or create-commit leaves the reference as it is.
C8_BranchUnchangedUntilStep5 ==
    [][HandlerStep =>
        /\ branchTip' # branchTip =>
              /\ pc = "updateref"
              /\ Last(calls').op = "UpdateRef"
              /\ Last(calls').ok
              /\ branchTip' = local.newCommit
              /\ Last(result'.Chunks).Success
              /\ Last(result'.Chunks).CommitSHA = branchTip'
        /\ (pc \in PipelineSteps \cup {"loop"} /\ pc # "updateref"
            /\ Len(result'.Chunks) = Len(result.Chunks) + 1) =>
              /\ ~Last(result'.Chunks).Success
              /\ branchTip' = branchTip]_vars

\* Chunk 2 failed at create-commit while another writer had pushed after
\* its get-ref; the branch is at the other writer's commit.
C8_Witness ==
    /\ Len(Outcomes) >= 2
    /\ Outcomes[1].Success
    /\ Outcomes[2].Error = "failed to create commit"
    /\ externals = 1
    /\ branchTip = ExternalSha(1)
    /\ commits[branchTip].parent = ChunkSha(1)

\* C9 - Non-force ref update under a racing writer: when the branch has
\* moved since the chunk read it in step 1, the update-ref step leaves the
\* branch at the other writer's tip and records the chunk as failed; no step
\* of the handler ever moves the branch to a commit that does not descend
\* from the current tip.
C9_NonForceUnderRace ==
    [][/\ (pc = "updateref" /\ pc' # "updateref" /\ branchTip # local.ref) =>
              /\ branchTip' = branchTip
              /\ Len(result'.Chunks) = Len(result.Chunks) + 1
              /\ ~Last(result'.Chunks).Success
              /\ Last(result'.Chunks).ChunkIndex = chunkIdx
              /\ Last(result'.Chunks).Error = "failed to update reference"
       /\ (HandlerStep /\ branchTip' # branchTip) =>
              IsAncestorOrSelf(commits', branchTip, branchTip')]_vars

\* An update-ref was refused because of the other writer alone.
C9_Witness ==
    /\ Len(Outcomes) >= 1
    /\ Last(Outcomes).Error = "failed to update reference"
    /\ externals = 1
    /\ branchTip = ExternalSha(1)
    /\ failures = 0
    /\ ~cancelled
    /\ ChunkSha(Last(Outcomes).ChunkIndex) \in DOMAIN commits

\* C10 - Validation before any remote call: a rejected batch has caused no
\* remote call, no chunk, no outcome and no remote object; and whenever the
\* handler has got past validation its file list is non-empty, has non-empty
\* pairwise distinct paths and no file above the per-file ceiling.
C10_ValidationBeforeRemote ==
    /\ response.kind = "toolError" =>
          /\ calls = <<>>
          /\ chunks = <<>>
          /\ Outcomes = <<>>
          /\ DOMAIN commits = {InitialTip}
          /\ branchTip = InitialTip
    /\ (pc # "idle" /\ response.kind # "toolError") =>
          /\ Len(files) > 0
          /\ \A i \in 1 .. Len(files) :
                /\ files[i].Path \notin {NoString, EmptyString}
                /\ files[i].Content \in 0 .. MaxFileSizeBytes
                /\ \A j \in 1 .. Len(files) : files[i].Path = files[j].Path => i = j

\* A batch was rejected for a duplicate path.
C10_Witness ==
    /\ pc = "done"
    /\ response.kind = "toolError"
    /\ response.code = "DUPLICATE_FILE_PATHS"
    /\ calls = <<>>

\* A batch was rejected for an oversized file.
C10_WitnessOversized ==
    /\ pc = "done"
    /\ response.code = "FILE_TOO_LARGE"
    /\ calls = <<>>

----------------------------------------------------------------------------
\* Properties of the validation functions.

\* The direct call of fn has returned.
Returned(fn) == call.fn = fn /\ ret.done

AllWellFormed(raw) == \A i \in 1 .. Len(raw) : WellFormed(raw[i])

\* Go indices of the entries of raw that carry path p.
IndicesOf(raw, p) == {i - 1 : i \in {j \in 1 .. Len(raw) : raw[j].path = p}}

\* The paths carried by more than one entry of raw.
RepeatedPaths(raw) ==
    {p \in UsedPaths(raw) : Cardinality(IndicesOf(raw, p)) > 1}

DistinctPaths(fs) ==
    \A i \in 1 .. Len(fs) : \A j \in 1 .. Len(fs) :
        fs[i].Path = fs[j].Path => i = j

\* C11 as stated - Uniqueness: whenever ValidateFiles succeeds no two
\* returned entries share a path, and every batch in which some path occurs
\* more than once fails with DUPLICATE_FILE_PATHS and returns no entries.
C11_UniquenessAnyBatch ==
    Returned("ValidateFiles") =>
        /\ ret.val.code = "" => DistinctPaths(ret.val.entries)
        /\ RepeatedPaths(call.raw) # {} =>
              /\ ret.val.code = "DUPLICATE_FILE_PATHS"
              /\ ret.val.entries = <<>>

\* C11 - Uniqueness: whenever ValidateFiles succeeds no two returned entries
\* share a path and the entries are the batch itself; every batch in which
\* some path occurs more than once fails and returns no entries, and when
\* all its entries are well formed the failure is DUPLICATE_FILE_PATHS.
C11_Uniqueness ==
    Returned("ValidateFiles") =>
        /\ ret.val.code = "" =>
              /\ DistinctPaths(ret.val.entries)
              /\ ret.val.entries = FileEntriesOf(call.raw)
        /\ RepeatedPaths(call.raw) # {} =>
              /\ ret.val.code # ""
              /\ ret.val.entries = <<>>
              /\ AllWellFormed(call.raw) =>
                    ret.val.code = "DUPLICATE_FILE_PATHS"

\* A well-formed batch with a path at its first and last entry was refused.
C11_Witness ==
    /\ Returned("ValidateFiles")
    /\ Len(call.raw) >= 3
    /\ AllWellFormed(call.raw)
    /\ call.raw[1].path = call.raw[Len(call.raw)].path
    /\ call.raw[2].path # call.raw[1].path
    /\ ret.val.code = "DUPLICATE_FILE_PATHS"
    /\ ret.val.entries = <<>>

\* The elements of a set of numbers in ascending order.
RECURSIVE Ascending(_)
Ascending(S) ==
    IF S = {} THEN <<>>
    ELSE LET m == CHOOSE x \in S : \A y \in S : x <= y
         IN  <<m>> \o Ascending(S \ {m})

\* C12 - Duplicate index lists: on a duplicate failure the duplicates map
\* has exactly the paths that occur more than once as its keys, each mapped
\* to the ascending list of all the indices where the path occurs, and the
\* error names one of these paths together with that path's index list.
C12_DuplicateIndexLists ==
    (Returned("ValidateFiles") /\ ret.val.code = "DUPLICATE_FILE_PATHS") =>
        LET d == ret.val.result.Duplicates
        IN  /\ ret.val.hasResult
            /\ DOMAIN d = RepeatedPaths(call.raw)
            /\ \A p \in DOMAIN d : d[p] = Ascending(IndicesOf(call.raw, p))
            /\ ret.val.errPath \in RepeatedPaths(call.raw)
            /\ ret.val.errIndices =
                  Ascending(IndicesOf(call.raw, ret.val.errPath))

\* The error names a path that occurs three times, after an entry with
\* another path.
C12_Witness ==
    /\ Returned("ValidateFiles")
    /\ ret.val.code = "DUPLICATE_FILE_PATHS"
    /\ Len(ret.val.errIndices) = 3
    /\ ret.val.errIndices[1] > 0
    /\ UsedPaths(call.raw) # {ret.val.errPath}

\* Two paths are repeated and the error names the one that repeats last.
C12_WitnessTwoPaths ==
    /\ Returned("ValidateFiles")
    /\ Cardinality(DOMAIN ret.val.result.Duplicates) = 2
    /\ ret.val.errPath = call.raw[2].path
    /\ ret.val.errPath # call.raw[1].path

\* The ways an entry can be malformed, and the entries that are not.
NotAnObject(e) == ~e.obj
LacksPath(e) == e.obj /\ e.path \in {NoString, EmptyString}
LacksContent(e) == e.obj /\ ~LacksPath(e) /\ e.content = NoString
Malformed(raw) ==
    {i \in 1 .. Len(raw) :
        NotAnObject(raw[i]) \/ LacksPath(raw[i]) \/ LacksContent(raw[i])}

ShapeCodes == {"INVALID_FILE_FORMAT", "MISSING_FILE_PATH", "MISSING_FILE_CONTENT"}

\* C13 - Fail-fast shape validation: ValidateFiles returns a shape error iff
\* the batch has a malformed entry, and then the error for the lowest such
\* index, with no result and no entries: INVALID_FILE_FORMAT for an entry
\* that is not an object, MISSING_FILE_PATH for an absent, non-string or
\* empty path, MISSING_FILE_CONTENT for absent or non-string content; an
\* entry whose content is the empty string is not malformed.
C13_FailFastShape ==
    Returned("ValidateFiles") =>
        LET bad == Malformed(call.raw)
        IN  IF bad = {}
            THEN ret.val.code \notin ShapeCodes
            ELSE LET k == CHOOSE i \in bad : \A j \in bad : i <= j
                 IN  /\ ret.val.index = k - 1
                     /\ ~ret.val.hasResult
                     /\ ret.val.entries = <<>>
                     /\ NotAnObject(call.raw[k]) =>
                           ret.val.code = "INVALID_FILE_FORMAT"
                     /\ LacksPath(call.raw[k]) =>
                           ret.val.code = "MISSING_FILE_PATH"
                     /\ LacksContent(call.raw[k]) =>
                           ret.val.code = "MISSING_FILE_CONTENT"

\* The entry at index 1 lacks its content, after an entry with empty
\* content and before one that is not an object.
C13_Witness ==
    /\ Returned("ValidateFiles")
    /\ Len(call.raw) >= 3
    /\ call.raw[1].content = 0
    /\ LacksContent(call.raw[2])
    /\ NotAnObject(call.raw[3])
    /\ ret.val.code = "MISSING_FILE_CONTENT"
    /\ ret.val.index = 1

\* The largest content size of a non-empty batch of well-formed entries.
MaxSizeOf(raw) ==
    CHOOSE m \in {raw[i].content : i \in 1 .. Len(raw)} :
        \A i \in 1 .. Len(raw) : raw[i].content <= m

\* The position of the first entry of that size.
FirstOfSize(raw, m) ==
    CHOOSE i \in 1 .. Len(raw) :
        /\ raw[i].content = m
        /\ \A j \in 1 .. i - 1 : raw[j].content # m

\* C14 - Largest-file tracking: on successful validation of a batch with at
\* least one entry, LargestFileSize is the maximum content size in the
\* batch and LargestFile is the path of the first entry of that size.
C14_LargestFileTracking ==
    (Returned("ValidateFiles") /\ ret.val.code = "" /\ Len(call.raw) > 0) =>
        LET m == MaxSizeOf(call.raw)
        IN  /\ ret.val.result.LargestFileSize = m
            /\ ret.val.result.LargestFile = call.raw[FirstOfSize(call.raw, m)].path

\* The paths of the entries above the per-file ceiling, in input order.
RECURSIVE PathsAboveCeiling(_)
PathsAboveCeiling(raw) ==
    IF raw = <<>> THEN <<>>
    ELSE (IF raw[1].content > MaxFileSizeBytes THEN <<raw[1].path>> ELSE <<>>)
         \o PathsAboveCeiling(Tail(raw))

RECURSIVE SumContents(_)
SumContents(raw) ==
    IF raw = <<>> THEN 0 ELSE raw[1].content + SumContents(Tail(raw))

\* C15 - Oversized-file list: a batch of well-formed entries with distinct
\* paths is validated successfully whatever the sizes of its files; on
\* success OversizedFiles is the list, in input order, of the paths whose
\* content size is strictly greater than MaxFileSizeBytes, TotalSize is the
\* sum of the content sizes and FileCount the number of entries.
C15_OversizedList ==
    Returned("ValidateFiles") =>
        /\ (AllWellFormed(call.raw) /\ RepeatedPaths(call.raw) = {}) =>
              ret.val.code = ""
        /\ ret.val.code = "" =>
              /\ ret.val.result.OversizedFiles = PathsAboveCeiling(call.raw)
              /\ ret.val.result.TotalSize = SumContents(call.raw)
              /\ ret.val.result.FileCount = Len(call.raw)

\* Two oversized files of different sizes around one at the ceiling.
C15_Witness ==
    /\ Returned("ValidateFiles")
    /\ ret.val.code = ""
    /\ Len(call.raw) >= 3
    /\ call.raw[1].content = MaxFileSizeBytes + 2
    /\ call.raw[2].content = MaxFileSizeBytes
    /\ call.raw[3].content = MaxFileSizeBytes + 1
    /\ ret.val.result.OversizedFiles = <<call.raw[1].path, call.raw[3].path>>

\* C16 - Oversized-file error content: when push_files_chunked rejects a
\* batch because a file exceeds the per-file ceiling, the error names a file
\* of the batch that is above the ceiling and reports the size of that very
\* file.
C16_OversizedErrorContent ==
    (call.fn = "push_files_chunked" /\ response.code = "FILE_TOO_LARGE") =>
        \E i \in 1 .. Len(call.raw) :
            /\ call.raw[i].path = response.path
            /\ call.raw[i].content > MaxFileSizeBytes
            /\ response.size = call.raw[i].content

\* C17 - Last-line chunk size check: pushChunk on a chunk whose content
\* bytes exceed MaxTotalPushSizeBytes fails with CHUNK_TOO_LARGE without a
\* remote call, a new remote object or a move of the branch, and the error
\* ValidateChunkSize gives it to return carries the byte count and the
\* file count of the chunk.
C17_LastLineChunkCheck ==
    /\ (call.fn = "pushChunk" /\ SumSizes(call.files) > MaxTotalPushSizeBytes) =>
          /\ pc \notin PipelineSteps
          /\ calls = <<>>
          /\ branchTip = InitialTip
          /\ DOMAIN commits = {InitialTip}
          /\ pc # "loop" =>
                /\ Len(Outcomes) = 1
                /\ ~Outcomes[1].Success
                /\ Outcomes[1].CommitSHA = NoSHA
                /\ Outcomes[1].Error = "CHUNK_TOO_LARGE"
    /\ (Returned("ValidateChunkSize")
        /\ SumSizes(call.files) > MaxTotalPushSizeBytes) =>
          /\ ret.val.code = "CHUNK_TOO_LARGE"
          /\ ret.val.bytes = SumSizes(call.files)
          /\ ret.val.count = Len(call.files)

\* pushChunk has refused three files that make one unit more than the
\* maximum.
C17_Witness ==
    /\ call.fn = "pushChunk"
    /\ Len(call.files) = 3
    /\ SumSizes(call.files) = MaxTotalPushSizeBytes + 1
    /\ pc = "done"
    /\ Outcomes[1].Error = "CHUNK_TOO_LARGE"
    /\ calls = <<>>

\* The code a ceiling check must return for value v against limit.
CeilingCode(v, limit, code) == IF v <= limit THEN "" ELSE code

\* C18 - Inclusive ceilings: each numeric ceiling check accepts a value iff
\* it is <= its limit, and otherwise fails with its own code:
\* ValidateChunkSize and ValidateTotalSize against MaxTotalPushSizeBytes
\* (CHUNK_TOO_LARGE, TOTAL_SIZE_TOO_LARGE), ValidateFileSize against
\* MaxFileSizeBytes (FILE_TOO_LARGE), ValidateFileCount against maxFiles
\* (TOO_MANY_FILES).
C18_InclusiveCeilings ==
    /\ Returned("ValidateChunkSize") =>
          ret.val.code = CeilingCode(SumSizes(call.files),
                                     MaxTotalPushSizeBytes, "CHUNK_TOO_LARGE")
    /\ Returned("ValidateTotalSize") =>
          ret.val.code = CeilingCode(call.totalSize, MaxTotalPushSizeBytes,
                                     "TOTAL_SIZE_TOO_LARGE")
    /\ Returned("ValidateFileSize") =>
          ret.val.code = CeilingCode(call.size, MaxFileSizeBytes,
                                     "FILE_TOO_LARGE")
    /\ Returned("ValidateFileCount") =>
          ret.val.code = CeilingCode(call.count, call.maxFiles,
                                     "TOO_MANY_FILES")

\* A chunk of several files that has exactly the maximum size passed.
C18_Witness ==
    /\ Returned("ValidateChunkSize")
    /\ Len(call.files) > 1
    /\ SumSizes(call.files) = MaxTotalPushSizeBytes
    /\ ret.val.code = ""

\* One more than each limit was refused.
C18_WitnessAbove ==
    \/ Returned("ValidateTotalSize") /\ call.totalSize = MaxTotalPushSizeBytes + 1
                                     /\ ret.val.code = "TOTAL_SIZE_TOO_LARGE"
    \/ Returned("ValidateFileCount") /\ call.count = call.maxFiles + 1
                                     /\ ret.val.code = "TOO_MANY_FILES"

----------------------------------------------------------------------------
\* Properties of RetryWithBackoff.

RetryReturned == retry.pc = "returned"

AllFailed(errs) == \A i \in 1 .. Len(errs) : errs[i] # Nil

\* C19 - Retry budget: the operation is never invoked more than
\* MaxRetries + 1 times; with a budget MaxRetries >= 0, when every
\* invocation failed and the context was not cancelled, the call returns
\* after exactly MaxRetries + 1 invocations and exactly MaxRetries waits,
\* none after the last attempt, with the error of the last invocation.
C19_RetryBudget ==
    /\ Len(retry.errs) <= retry.cfg.MaxRetries + 1
    /\ (RetryReturned /\ ~retry.ctxDone /\ AllFailed(retry.errs)
        /\ retry.cfg.MaxRetries >= 0) =>
          /\ Len(retry.errs) = retry.cfg.MaxRetries + 1
          /\ Len(retry.waits) = retry.cfg.MaxRetries
          /\ retry.returned = OpError(retry.cfg.MaxRetries + 1)
          /\ retry.returned = retry.errs[Len(retry.errs)]

\* Three failed invocations and two waits with a budget of two.
C19_Witness ==
    /\ RetryReturned
    /\ ~retry.ctxDone
    /\ retry.cfg.MaxRetries = 2
    /\ Len(retry.errs) = 3
    /\ AllFailed(retry.errs)
    /\ Len(retry.waits) = 2
    /\ retry.returned = OpError(3)

\* C20 - Retry stops at first success: as soon as an invocation, the k-th,
\* is the first to return no error, the call has returned nil, with
\* exactly k invocations and exactly k-1 waits; k is at most
\* MaxRetries + 1.
C20_StopsAtFirstSuccess ==
    (retry.errs # <<>> /\ Last(retry.errs) = Nil) =>
        LET k == Len(retry.errs)
        IN  /\ AllFailed(SubSeq(retry.errs, 1, k - 1))
            /\ k <= retry.cfg.MaxRetries + 1
            /\ RetryReturned
            /\ retry.returned = Nil
            /\ Len(retry.waits) = k - 1

\* The third invocation succeeded after two waits.
C20_Witness ==
    /\ RetryReturned
    /\ ~retry.ctxDone
    /\ Len(retry.errs) = 3
    /\ retry.errs[3] = Nil
    /\ retry.returned = Nil
    /\ Len(retry.waits) = 2

\* A configuration whose backoff can only grow: a factor of at least one
\* and an initial backoff between zero and the cap.
GrowingConfig(cfg) ==
    /\ cfg.BackoffFactor >= 100
    /\ 0 <= cfg.InitialBackoff
    /\ cfg.InitialBackoff <= cfg.MaxBackoff

\* The waits follow the recurrence: the first is InitialBackoff, each next
\* one the previous times BackoffFactor (a whole duration), capped.
FollowsRecurrence(w, cfg) ==
    /\ w # <<>> => w[1] = cfg.InitialBackoff
    /\ \A i \in 1 .. Len(w) - 1 :
          LET scaled == (w[i] * cfg.BackoffFactor) \div 100
          IN  w[i + 1] = IF scaled > cfg.MaxBackoff THEN cfg.MaxBackoff ELSE scaled

NonDecreasing(w) == \A i \in 1 .. Len(w) - 1 : w[i + 1] >= w[i]

\* C21 as stated: for every retry configuration the completed waits follow
\* the recurrence and each wait is at least as long as the one before it.
C21_MonotonicAnyConfig ==
    /\ FollowsRecurrence(retry.waits, retry.cfg)
    /\ NonDecreasing(retry.waits)

\* C21 (amended): for every retry configuration the completed waits follow
\* the recurrence (first wait InitialBackoff, each next one the previous
\* times BackoffFactor, capped at MaxBackoff); when BackoffFactor is at
\* least one and 0 <= InitialBackoff <= MaxBackoff, each wait is at least as
\* long as the one before it and none exceeds MaxBackoff.
C21_MonotonicBackoff ==
    /\ FollowsRecurrence(retry.waits, retry.cfg)
    /\ GrowingConfig(retry.cfg) =>
          /\ NonDecreasing(retry.waits)
          /\ \A i \in 1 .. Len(retry.waits) : retry.waits[i] <= retry.cfg.MaxBackoff

\* Two waits were completed under a growing configuration, the second one
\* longer than the first and cut down to the cap.
C21_Witness ==
    /\ GrowingConfig(retry.cfg)
    /\ Len(retry.waits) = 2
    /\ retry.waits[2] > retry.waits[1]
    /\ retry.waits[2] = retry.cfg.MaxBackoff
    /\ (retry.waits[1] * retry.cfg.BackoffFactor) \div 100 > retry.cfg.MaxBackoff

\* The cancellation is in front of the call: the context was done at the
\* look after a failed attempt, or at the entry of a wait that has time
\* left, or it fired on the goroutine parked in the wait.
CancellationPending ==
    \/ retry.pc = "check" /\ retry.ctxDone
    \/ retry.pc = "wait" /\ retry.ctxDone /\ retry.backoff > 0
    \/ retry.pc = "parked" /\ retry.ctxDone /\ retry.woken # "timer"

\* C22: when the context is done at the look after a failed attempt, or is
\* cancelled during a backoff wait, the next step of the call returns the
\* cancellation error, not the operation's error, with no wait completed
\* and no further invocation of the operation.
C22_CancellationPriority ==
    [][(CancellationPending /\ retry' # retry) =>
          /\ retry'.pc = "returned"
          /\ retry'.returned = CtxErr
          /\ retry'.returned # retry.lastErr
          /\ retry'.errs = retry.errs
          /\ retry'.waits = retry.waits]_vars

\* The call returned the cancellation error before its budget ran out: the
\* cancellation woke it from its second wait.
C22_Witness ==
    /\ RetryReturned
    /\ retry.returned = CtxErr
    /\ retry.lastErr # Nil
    /\ retry.attempt < retry.cfg.MaxRetries
    /\ retry.woken = "ctx"
    /\ retry.waits # <<>>
    /\ Len(retry.errs) = Len(retry.waits) + 1

----------------------------------------------------------------------------
\* Properties of the RateLimiter.

\* A counter of the record by the class of the claim.
CounterOf(s, class) ==
    CASE class = "core" -> s.CoreWaits
      [] class = "search" -> s.SearchWaits
      [] class = "graphql" -> s.GraphQLWaits

\* The goroutine takes a step.
Steps(p) == limiter'.g[p] # limiter.g[p]

\* C23 - Acquire counters: a successful WaitCore, WaitSearch or WaitGraphQL
\* has, when it is about to release the mutex, raised the wait counter of
\* its class by exactly one and left the other two as it found them; the
\* steps of a Wait method before the bucket answered, and the one that
\* returns the error of the context, change no counter.
C23_AcquireCounters ==
    [][\A p \in Goroutines :
          /\ limiter.g[p].pc = "added" =>
                \A c \in Classes :
                   CounterOf(stats, c) =
                      CounterOf(limiter.g[p].before, c)
                         + (IF c = limiter.g[p].class THEN 1 ELSE 0)
          /\ (Steps(p) /\ limiter.g[p].pc \in {"idle", "waiting"}
                /\ limiter'.g[p].pc \in {"idle", "waiting", "acquired"})
                => stats' = stats]_vars

\* A WaitSearch is about to release the mutex with SearchWaits one above
\* what it found, after an earlier acquire had counted in another class.
C23_Witness ==
    \E p \in Goroutines :
       /\ limiter.g[p].pc = "added"
       /\ limiter.g[p].class = "search"
       /\ stats.SearchWaits = limiter.g[p].before.SearchWaits + 1
       /\ stats.CoreWaits + stats.GraphQLWaits > 0

\* The step in which Allow answers goroutine p.
AllowAnswers(p) == limiter.g[p].pc = "idle" /\ limiter'.g[p].pc = "allowed"

\* C24 - tryAcquire: an Allow method is never kept waiting; with a token of
\* its class in the bucket it takes exactly one and returns true, with none
\* it returns false and every bucket keeps its level; the statistics stay
\* as they are in both cases.
C24_TryAcquire ==
    /\ [](\A p \in Goroutines, c \in Classes :
             (limiter.g[p].pc = "idle" /\ limiter.started < limiter.budget)
                => ENABLED AllowCall(p, c))
    /\ [][\A p \in Goroutines :
             AllowAnswers(p) =>
                LET c == limiter'.g[p].class
                IN  /\ stats' = stats
                    /\ IF limiter.tokens[c] >= 1
                       THEN /\ limiter'.g[p].out = "true"
                            /\ limiter'.tokens =
                                  [limiter.tokens EXCEPT ![c] = @ - 1]
                       ELSE /\ limiter'.g[p].out = "false"
                            /\ limiter'.tokens = limiter.tokens]_vars

\* AllowSearch returned false on an empty search bucket while the other
\* goroutine's AllowCore had returned true, with acquires counted before.
C24_Witness ==
    \E p, q \in Goroutines :
       /\ limiter.g[p].pc = "allowed"
       /\ limiter.g[p].class = "search"
       /\ limiter.g[p].out = "false"
       /\ limiter.tokens["search"] = 0
       /\ limiter.g[q].pc = "allowed"
       /\ limiter.g[q].class = "core"
       /\ limiter.g[q].out = "true"
       /\ stats.CoreWaits > 0

\* No acquire has counted since a ResetStats wrote the record.
FreshlyReset == limiter.reset # "no"

\* C25 - resetStats: from the ResetStats on, until an acquire counts, the
\* record is all zero and so is every copy GetStats makes; ResetStats leaves
\* the token levels alone, and GetStats returns the record as it is and
\* changes neither the record nor the token levels.
C25_ResetStats ==
    /\ [](FreshlyReset =>
             /\ stats = EmptyStats
             /\ \A p \in Goroutines :
                   limiter.g[p].pc = "read" => limiter.g[p].snap = EmptyStats)
    /\ [][\A p \in Goroutines :
             /\ (Steps(p) /\ limiter'.g[p].pc \in {"resetting", "halfreset",
                                                  "reset"})
                   => limiter'.tokens = limiter.tokens
             /\ (Steps(p) /\ limiter'.g[p].pc \in {"rlocked", "read"})
                   => /\ limiter'.tokens = limiter.tokens
                      /\ stats' = stats
             /\ (Steps(p) /\ limiter'.g[p].pc = "read")
                   => limiter'.g[p].snap = stats]_vars

\* GetStats copied an all-zero record after a ResetStats that had found
\* counters and wait time above zero.
C25_Witness ==
    \E p \in Goroutines :
       /\ limiter.g[p].pc = "read"
       /\ limiter.reset = "zeroed"
       /\ limiter.g[p].snap = EmptyStats

\* The goroutine is in a Wait method and the bucket has not answered.
Blocked(q) == limiter.g[q].pc = "waiting"

\* C26 - Class independence: a step of a Wait or Allow method changes the
\* token level of no class but its own; a Wait method whose class has a
\* token and whose context is live can take it whatever the other buckets
\* hold and whoever waits on them, and it fails only on a done context.
C26_ClassIndependence ==
    /\ [](\A p \in Goroutines :
             Blocked(p) =>
                /\ (limiter.tokens[limiter.g[p].class] >= 1
                      /\ ~limiter.g[p].ctxDone) => ENABLED WaitAcquires(p)
                /\ ENABLED WaitFails(p) => limiter.g[p].ctxDone)
    /\ [][\A p \in Goroutines :
             Steps(p) =>
                \A c \in Classes :
                   (c # limiter.g[p].class /\ c # limiter'.g[p].class)
                      => limiter'.tokens[c] = limiter.tokens[c]]_vars

\* WaitSearch got its token while the other goroutine was waiting on the
\* empty core bucket with a live context.
C26_Witness ==
    \E p, q \in Goroutines :
       /\ limiter.g[p].pc = "acquired"
       /\ limiter.g[p].class = "search"
       /\ Blocked(q)
       /\ limiter.g[q].class = "core"
       /\ ~limiter.g[q].ctxDone
       /\ limiter.tokens["core"] = 0

\* C27 - No lost counter updates: in every interleaving each wait counter
\* equals the number of counter updates of its class since the latest
\* ResetStats, and no copy made by GetStats was taken while a writer was
\* between two writes of the record.
C27_NoLostUpdates ==
    /\ \A c \in Classes : CounterOf(stats, c) = limiter.counted[c]
    /\ \A p \in Goroutines : limiter.g[p].pc = "read" => ~limiter.g[p].torn

\* GetStats copied a record in which both goroutines' acquires of one class
\* are counted.
C27_Witness ==
    \E p \in Goroutines, c \in Classes :
       /\ limiter.g[p].pc = "read"
       /\ CounterOf(limiter.g[p].snap, c) = 2
       /\ limiter.counted[c] = 2

----------------------------------------------------------------------------
\* Properties of the result of a run.

Succeeded(seq) == {i \in 1 .. Len(seq) : seq[i].Success}

\* The successful outcome of the highest chunk index.
LastSucceeded(seq) ==
    CHOOSE i \in Succeeded(seq) :
       \A j \in Succeeded(seq) : seq[j].ChunkIndex <= seq[i].ChunkIndex

\* C28 - Final commit id: final_commit_sha is the commit id of the
\* successful outcome of the highest chunk index, and it is empty exactly
\* when no chunk has succeeded; a failed chunk recorded later leaves it.
C28_FinalCommitId ==
    Planned =>
       /\ result.FinalCommitSHA = NoSHA <=> Succeeded(Outcomes) = {}
       /\ Succeeded(Outcomes) # {} =>
             result.FinalCommitSHA =
                Outcomes[LastSucceeded(Outcomes)].CommitSHA

\* A run with continue_on_error ended with a success followed by a failed
\* chunk, and final_commit_sha is still the commit of the success.
C28_Witness ==
    /\ Completed
    /\ Len(Outcomes) >= 2
    /\ Outcomes[Len(Outcomes) - 1].Success
    /\ ~Last(Outcomes).Success
    /\ result.FinalCommitSHA = Outcomes[Len(Outcomes) - 1].CommitSHA
    /\ result.FinalCommitSHA # NoSHA

\* C29 - Outcome well-formedness: every recorded outcome has a commit id
\* exactly when its success flag is true, and an error message exactly when
\* the flag is false.
C29_OutcomeWellFormed ==
    \A i \in 1 .. Len(Outcomes) :
       /\ Outcomes[i].CommitSHA # NoSHA <=> Outcomes[i].Success
       /\ Outcomes[i].Error # "" <=> ~Outcomes[i].Success

\* A finished run recorded a failed outcome and, after it, a successful one.
C29_Witness ==
    /\ Completed
    /\ \E i, j \in 1 .. Len(Outcomes) :
          /\ i < j
          /\ ~Outcomes[i].Success
          /\ Outcomes[i].Error # ""
          /\ Outcomes[j].Success
          /\ Outcomes[j].CommitSHA # NoSHA

\* C30 - Cancellation aborts the chunk sequence: once the context is
\* cancelled, no step of the handler moves the branch or records a success;
\* every call it issues fails and fails its chunk, and without
\* continue_on_error that failure ends the run, so that no chunk is
\* attempted after it.
C30_CancellationAborts ==
    [][(cancelled /\ HandlerStep) =>
          /\ branchTip' = branchTip
          /\ result'.SuccessfulChunks = result.SuccessfulChunks
          /\ result'.FinalCommitSHA = result.FinalCommitSHA
          /\ Len(result'.Chunks) > Len(result.Chunks) =>
                ~Last(result'.Chunks).Success
          /\ Len(calls') > Len(calls) =>
                /\ ~Last(calls').ok
                /\ Len(result'.Chunks) = Len(result.Chunks) + 1
                /\ ~args.continueOnError => pc' = "done"]_vars

\* A run without continue_on_error was cancelled after its first chunk had
\* succeeded and ended on the failed chunk, with chunks left unattempted
\* and no fault of the network.
C30_Witness ==
    /\ Completed
    /\ cancelled
    /\ ~args.continueOnError
    /\ failures = 0
    /\ Outcomes # <<>>
    /\ Outcomes[1].Success
    /\ ~Last(Outcomes).Success
    /\ Len(Outcomes) < Len(chunks)

----------------------------------------------------------------------------
\* Properties of the branch and of the calls of a run.

\* No other writer has pushed onto the branch.
Alone == externals = 0

\* C31 - No rollback of earlier chunks: in a run with no other writer the
\* branch is, at every point and at the end, at the commit of the last
\* successful chunk (final_commit_sha), or at the tip before the run while
\* no chunk has succeeded; a failed later chunk moves it nowhere.
C31_NoRollback ==
    (Planned /\ Alone) =>
       branchTip = IF result.FinalCommitSHA = NoSHA
                   THEN InitialTip
                   ELSE result.FinalCommitSHA

\* A run on its own ended with chunk 1 successful and a later chunk failed;
\* the branch is at the commit of chunk 1.
C31_Witness ==
    /\ Completed
    /\ Alone
    /\ Len(Outcomes) >= 2
    /\ Outcomes[1].Success
    /\ \A i \in 2 .. Len(Outcomes) : ~Outcomes[i].Success
    /\ branchTip = Outcomes[1].CommitSHA
    /\ branchTip # InitialTip

\* The commit of the successful outcome before outcome i, or the tip before
\* the run.
PreviousSuccess(seq, i) ==
    LET before == {j \in Succeeded(seq) : j < i}
    IN  IF before = {} THEN InitialTip
        ELSE seq[CHOOSE j \in before : \A k \in before : k <= j].CommitSHA

\* C32 - Commit ancestry: the commit a chunk attempt creates has as its
\* parent the branch tip that attempt read in step 1; so in a run with no
\* other writer the commit of every successful chunk is the child of the
\* commit of the successful chunk before it (of the tip before the run for
\* the first), failed chunks in between or not.
C32_CommitAncestry ==
    /\ [](Alone =>
             \A i \in Succeeded(Outcomes) :
                commits[Outcomes[i].CommitSHA].parent =
                   PreviousSuccess(Outcomes, i))
    /\ [][(pc = "createcommit" /\ pc' = "updateref") =>
             /\ DOMAIN commits' = DOMAIN commits \cup {local'.newCommit}
             /\ commits'[local'.newCommit].parent = local.ref]_vars

\* Chunk 1 succeeded, chunk 2 failed, chunk 3 succeeded with no other
\* writer; the commit of chunk 3 is the child of the commit of chunk 1.
C32_Witness ==
    /\ Alone
    /\ Len(Outcomes) >= 3
    /\ Outcomes[1].Success
    /\ ~Outcomes[2].Success
    /\ Outcomes[3].Success
    /\ commits[Outcomes[3].CommitSHA].parent = Outcomes[1].CommitSHA

StepOrder == <<"GetRef", "GetCommit", "CreateTree", "CreateCommit", "UpdateRef">>

StepError ==
    <<"failed to get branch reference", "failed to get base commit",
      "failed to create tree", "failed to create commit",
      "failed to update reference">>

CallsOfChunk(k) == SelectSeq(calls, LAMBDA c : c.chunk = k)

\* The calls of chunk k lie next to each other in the sequence of calls:
\* no call of an earlier chunk follows one of k, none of a later chunk
\* precedes one.
Contiguous(k) ==
    \A i \in 1 .. Len(calls) - 1 :
       /\ calls[i].chunk = k => calls[i + 1].chunk >= k
       /\ calls[i + 1].chunk = k => calls[i].chunk <= k

\* C33 - Pipeline step protocol without automatic retry: the calls of one
\* chunk attempt are an unbroken initial part of get-ref, get-commit,
\* create-tree, create-commit, update-ref, each step at most once; only the
\* last call issued can have failed, and then the attempt has ended with
\* the error of that step.
C33_StepProtocol ==
    Planned =>
       \A k \in 1 .. Len(chunks) :
          LET cs == CallsOfChunk(k)
          IN  /\ Len(cs) <= Len(StepOrder)
              /\ Contiguous(k)
              /\ \A i \in 1 .. Len(cs) :
                    /\ cs[i].op = StepOrder[i]
                    /\ i < Len(cs) => cs[i].ok
              /\ (cs # <<>> /\ ~Last(cs).ok) =>
                    /\ Len(Outcomes) >= Last(cs).recorded + 1
                    /\ ~Outcomes[Last(cs).recorded + 1].Success
                    /\ Outcomes[Last(cs).recorded + 1].ChunkIndex = k
                    /\ Outcomes[Last(cs).recorded + 1].Error =
                          StepError[Len(cs)]

\* Chunk 1 failed at create-tree after two calls that returned, and chunk 2
\* went through all five steps.
C33_Witness ==
    /\ Len(Outcomes) >= 2
    /\ Len(CallsOfChunk(1)) = 3
    /\ Outcomes[1].Error = "failed to create tree"
    /\ Len(CallsOfChunk(2)) = 5
    /\ Outcomes[2].Success

\* C40 - Outcomes are a prefix of the plan: at every point of a run the
\* i-th outcome has chunk index i, the file count of the i-th planned chunk
\* and its paths in chunk order; total_files and total_chunks are those of
\* the plan and no step after the planning changes them.
C40_OutcomesPrefixOfPlan ==
    /\ [](Planned =>
             /\ Len(Outcomes) <= Len(chunks)
             /\ \A i \in 1 .. Len(Outcomes) :
                   /\ Outcomes[i].ChunkIndex = i
                   /\ Outcomes[i].FilesInChunk = Len(chunks[i])
                   /\ Outcomes[i].Files = PathsOf(chunks[i])
             /\ result.TotalFiles = Len(files)
             /\ result.TotalChunks = Len(chunks))
    /\ [][Planned =>
             /\ result'.TotalFiles = result.TotalFiles
             /\ result'.TotalChunks = result.TotalChunks
             /\ chunks' = chunks]_vars

\* A run of two chunks of different lengths has recorded both, the first as
\* failed, each with the paths of its own chunk.
C40_Witness ==
    /\ Len(chunks) = 2
    /\ Len(Outcomes) = 2
    /\ Len(chunks[1]) # Len(chunks[2])
    /\ ~Outcomes[1].Success
    /\ Outcomes[2].Success
    /\ Outcomes[1].Files # Outcomes[2].Files
    /\ Outcomes[2].Files = PathsOf(chunks[2])

----------------------------------------------------------------------------
\* Further properties of the validation functions and of RetryWithBackoff.

\* C37 - Shape errors take precedence over duplicates: a batch with a
\* malformed entry gets the shape error of its first malformed index, also
\* when paths repeat at lower indices; the duplicate-path error is returned
\* only for a batch whose entries are all well formed.
C37_ShapeBeforeDuplicates ==
    Returned("ValidateFiles") =>
        LET bad == Malformed(call.raw)
        IN  /\ bad # {} =>
                 /\ ret.val.code \in ShapeCodes
                 /\ \E k \in bad :
                       /\ \A j \in bad : k <= j
                       /\ ret.val.index = k - 1
                       /\ ret.val.code = ShapeError(call.raw[k])
            /\ ret.val.code = "DUPLICATE_FILE_PATHS" =>
                 /\ bad = {}
                 /\ RepeatedPaths(call.raw) # {}

\* A path is repeated at indices 0 and 1 and the entry at index 2 is
\* malformed: the shape error for index 2 is returned.
C37_Witness ==
    /\ Returned("ValidateFiles")
    /\ Len(call.raw) >= 3
    /\ WellFormed(call.raw[1])
    /\ WellFormed(call.raw[2])
    /\ call.raw[1].path = call.raw[2].path
    /\ Malformed(call.raw) # {}
    /\ ret.val.code \in ShapeCodes
    /\ ret.val.index = 2

\* C38 - Retry never reports success without a successful attempt: for
\* every configuration, a call of RetryWithBackoff that returned nil made
\* an invocation of the operation that returned nil.
C38_NoSuccessWithoutAttempt ==
    (RetryReturned /\ retry.returned = Nil) =>
        \E i \in 1 .. Len(retry.errs) : retry.errs[i] = Nil

----------------------------------------------------------------------------
\* Properties of the chunks handed to pushChunk.

\* C39 - Chunk-too-large is unreachable from push_files_chunked: every
\* chunk of the plan of an accepted batch is a single file within the
\* per-file ceiling or a group within the planner's byte ceiling, so its
\* total size is at most MaxTotalPushSizeBytes, and no outcome of the run
\* carries the error of pushChunk's size check.
C39_ChunkTooLargeUnreachable ==
    /\ Planned =>
          \A i \in 1 .. Len(chunks) :
             /\ SumSizes(chunks[i]) <= MaxTotalPushSizeBytes
             /\ ValidateChunkSize(chunks[i]).code = ""
             /\ \/ Len(chunks[i]) = 1
                \/ SumSizes(chunks[i]) <= GetMaxChunkSize
    /\ \A k \in 1 .. Len(Outcomes) : Outcomes[k].Error # "CHUNK_TOO_LARGE"

\* A run whose plan was split by the byte ceiling (the first chunk is below
\* the count limit and the next file would take it above GetMaxChunkSize)
\* and whose first chunk passed the size check of pushChunk and was
\* committed.
C39_Witness ==
    /\ Planned
    /\ Len(chunks) >= 2
    /\ Len(chunks[1]) < chunkSize
    /\ SumSizes(chunks[1]) + chunks[2][1].Content > GetMaxChunkSize
    /\ Len(Outcomes) >= 1
    /\ Outcomes[1].Success

----------------------------------------------------------------------------
\* Properties of bulk_delete_files.

DeleteSteps == <<"GetRef", "GetCommit", "CreateTree", "CreateCommit", "UpdateRef">>

\* The request fails one of the checks on paths (its other parameters are
\* present).
InvalidPaths(req) ==
    \/ ~req.isArray
    \/ Len(req.paths) = 0
    \/ Len(req.paths) > MaxFilesPerPush
    \/ \E i \in 1 .. Len(req.paths) : req.paths[i] \in {NoString, EmptyString}

DeleteReturned == pc = "done"

\* C36 - Bulk delete is a single commit: a request with an empty path list,
\* more than MaxFilesPerPush paths or a path that is not a non-empty string
\* is rejected with no remote call issued; any other request passes the
\* checks, the remote calls are a prefix of the five steps in order (each
\* at most once, so at most one update-ref), every call before the last
\* succeeded, the update-ref is not forced (no commit of another writer is
\* left off the branch), and a successful call reports exactly the input
\* paths in order with their count, its commit removing all of them from
\* the tree of the tip it was built on.
C36_BulkDeleteSingleCommit ==
    /\ call.paramsOk =>
          /\ InvalidPaths(call) =>
                /\ calls = <<>>
                /\ DeleteReturned => response.kind = "toolError"
          /\ (~InvalidPaths(call) /\ pc # "idle") =>
                ~(response.kind = "toolError" /\ calls = <<>>)
    /\ Len(calls) <= Len(DeleteSteps)
    /\ \A i \in 1 .. Len(calls) :
          /\ calls[i].op = DeleteSteps[i]
          /\ i < Len(calls) => calls[i].ok
    /\ Cardinality({i \in 1 .. Len(calls) : calls[i].op = "UpdateRef"}) <= 1
    /\ (DeleteReturned /\ response.kind = "text") =>
          /\ Len(calls) = Len(DeleteSteps)
          /\ calls[Len(calls)].ok
          /\ result.deleted_files = call.paths
          /\ result.files_deleted = Len(call.paths)
          /\ branchTip = result.commit_sha
          /\ \A s \in DOMAIN commits : IsAncestorOrSelf(commits, s, branchTip)
          /\ commits[branchTip].tree =
                commits[commits[branchTip].parent].tree
                   \ {call.paths[i] : i \in 1 .. Len(call.paths)}

\* A call that deleted two different files of the branch in one commit.
C36_Witness ==
    /\ DeleteReturned
    /\ response.kind = "text"
    /\ Len(call.paths) = 2
    /\ call.paths[1] # call.paths[2]
    /\ result.files_deleted = 2
    /\ commits[branchTip].tree = {}

----------------------------------------------------------------------------
\* Properties of a new limiter.

\* C35 - Initial burst: a limiter as New returns it has every bucket full;
\* asked by the Allow method of one class only, with no time elapsed, the
\* call returns true when fewer than the burst of the class (10 core, 5
\* search, 10 graphql) calls were made before it and false otherwise.
C35_InitialBurst ==
    /\ [](limiter.started = 0 =>
             /\ limiter.tokens["core"] = 10
             /\ limiter.tokens["search"] = 5
             /\ limiter.tokens["graphql"] = 10)
    /\ [][\A p \in Goroutines :
             (AllowAnswers(p) /\ limiter.refills = 0) =>
                /\ limiter'.g[p].class = call.class
                /\ limiter'.g[p].out =
                      (IF limiter.started < Burst(call.class)
                       THEN "true" ELSE "false")]_vars

\* The eleventh AllowCore of a new limiter, no time elapsed, returned false.
C35_Witness ==
    \E p \in Goroutines :
       /\ call.class = "core"
       /\ limiter.started = CoreBurst + 1
       /\ limiter.refills = 0
       /\ limiter.g[p].pc = "allowed"
       /\ limiter.g[p].out = "false"
       /\ limiter.tokens["core"] = 0

----------------------------------------------------------------------------
\* Properties of the Wait methods under a fair scheduler.

InWait(p) == limiter.g[p].pc \in {"waiting", "acquired", "locked", "loaded",
                                  "stored", "added"}

\* C34 - Acquire liveness: a goroutine inside a Wait method always comes
\* back out of it; while it is blocked on the bucket with its context
\* cancelled the only way on is the return of the error, and it leaves the
\* bucket with success only by taking one token that was in the bucket of
\* its class.
C34_AcquireLiveness ==
    /\ \A p \in Goroutines : InWait(p) ~> (limiter.g[p].pc = "idle")
    /\ [](\A p \in Goroutines :
             (Blocked(p) /\ limiter.g[p].ctxDone) =>
                /\ ENABLED WaitFails(p)
                /\ ~ENABLED WaitAcquires(p))
    /\ [][\A p \in Goroutines :
             (Blocked(p) /\ Steps(p)) =>
                LET c == limiter.g[p].class
                IN  \/ /\ limiter'.g[p].pc = "acquired"
                       /\ ~limiter.g[p].ctxDone
                       /\ limiter.tokens[c] >= 1
                       /\ limiter'.tokens = [limiter.tokens EXCEPT ![c] = @ - 1]
                    \/ /\ limiter'.g[p].pc = "idle"
                       /\ limiter.g[p].ctxDone
                       /\ limiter'.tokens = limiter.tokens
                    \/ /\ Blocked(p)'
                       /\ limiter'.g[p].ctxDone
                       /\ limiter'.tokens = limiter.tokens]_vars

\* A goroutine blocked on the empty search bucket, its context live, while
\* the other one holds the mutex.
C34_Witness ==
    \E p, q \in Goroutines :
       /\ Blocked(p)
       /\ limiter.g[p].class = "search"
       /\ ~limiter.g[p].ctxDone
       /\ limiter.tokens["search"] = 0
       /\ limiter.g[q].pc = "locked"

====
